---- MODULE Spec2Model ----
(***************************************************************************)
(* Farm Intelligence Pipeline of KIsanSevak: the yield prediction model,   *)
(* the area-detection parser, the crop-suggestion parser, the alert        *)
(* engine, the weather aggregator, the loading hooks and the metrics       *)
(* screen, modelled operation by operation from the TypeScript sources.    *)
(*                                                                         *)
(* Numbers.  The code computes in IEEE doubles; the model computes in      *)
(* exact fixed point.  Every decimal literal of the code is an exact       *)
(* multiple of the unit chosen for it:                                     *)
(*   yieldPerSqm          tenths of kg per sqm          (0.6  -> 6)        *)
(*   area / investment / location factor   twentieths   (1.15 -> 23)       *)
(*   crop type factor     tenths                        (1.1  -> 11)       *)
(*   weather factor       1/8000 (three twentieths multiplied)             *)
(*   total factor         1/FactorDen, FactorDen = 20*10*8000*20*20        *)
(*   confidence           hundredths                    (0.3  -> 30)       *)
(*   precipitation        tenths of mm                                     *)
(*   detected area        tenths of sqm                 (802.4 -> 8024)    *)
(* An optional number (a field that may be undefined/null) is a record     *)
(* [present, v].                                                           *)
(***************************************************************************)
EXTENDS Integers, Sequences, FiniteSets, TLC

VARIABLES
    pc,                 \* "call": the operation is about to run; later values: how far it got
    op,                 \* name of the operation being called
    status,             \* "pending" | "fulfilled" | "rejected": how the call settled
    now,                \* the clock reading the operation takes (new Date())
    crops,              \* predictYield / predictMultipleCropsYield: the crops passed in
    weatherData,        \* the optional WeatherData passed in (yield model, alert engine)
    predictions,        \* the YieldPredictionResult list returned
    serviceFailed,      \* whether the generative service call (sendTextMessage / analyzeImage) throws
    aiResponse,         \* the text the generative service returns
    farmAreaHint,       \* area parser: the optional user-provided area
    maxReasonableArea,  \* validateAreaDetection: the ceiling
    areaResult,         \* the AreaDetectionResult, <<>> before there is one
    weatherSummary,     \* suggestion parser: the WeatherSummary passed in
    suggestions,        \* the optional CropSuggestionsResponse (returned by the parser, read by the alert engine)
    isLoading,          \* the loading flag of a hook or of MetricsScreen
    error,              \* the error message of a hook or of MetricsScreen, "" for null
    allAlerts,          \* the alert list derived
    topCount,           \* getTopAlerts: count
    topAlerts,          \* getTopAlerts: the result
    samples,            \* getWeatherForecast: data.list, the 3-hourly samples the weather service returns
    dailyForecast,      \* the DailyForecast list (processForecastData's result, generateWeatherSummary's input)
    hostWest,           \* whether the host's time zone is west of UTC (toLocaleDateString)
    summaryResult,      \* the WeatherSummary generateWeatherSummary returns, <<>> before there is one
    secondRun,          \* the result of running a parser a second time, <<>> before there is one
    failingCall,        \* loadMetrics: the repository call that throws, "none" when none does
    cropMetrics,        \* MetricsScreen: the CropMetrics list (metricsData)
    updates,            \* loadMetrics: the updateCropYieldPrediction calls made so far, in order
    loads               \* useWeatherData / useCropSuggestions: the loads issued so far, in order

vars == <<pc, op, status, now, crops, weatherData, predictions, serviceFailed, aiResponse,
          farmAreaHint, maxReasonableArea, areaResult, weatherSummary, suggestions,
          isLoading, error, allAlerts, topCount, topAlerts,
          samples, dailyForecast, hostWest, summaryResult, secondRun,
          failingCall, cropMetrics, updates, loads>>

yieldVars == <<crops, predictions>>

areaVars == <<farmAreaHint, maxReasonableArea, areaResult>>

alertVars == <<isLoading, error, allAlerts, topCount, topAlerts>>

forecastVars == <<samples, dailyForecast, hostWest, summaryResult>>

screenVars == <<failingCall, cropMetrics, updates, loads>>

----------------------------------------------------------------------------
(* JavaScript values                                                       *)

Absent == [present |-> FALSE, v |-> 0]

Num(n) == [present |-> TRUE, v |-> n]

\* JS truthiness of an optional number: undefined, null and 0 are falsy.
Truthy(x) == x.present /\ x.v # 0

\* a || b on optional numbers
OrElse(x, y) == IF Truthy(x) THEN x ELSE y

NULL == "<null>"

Min(a, b) == IF a <= b THEN a ELSE b

Max(a, b) == IF a >= b THEN a ELSE b

Abs(a) == IF a < 0 THEN -a ELSE a

\* Math.round(n / d) for d > 0: floor(n / d + 0.5)
RoundDiv(n, d) == (2 * n + d) \div (2 * d)

\* String.prototype.toLowerCase on the crop-type strings the model uses.
ToLowerCase(s) ==
    CASE s = "Rice" -> "rice"
      [] s = "Spinach" -> "spinach"
      [] s = "TOMATOES" -> "tomatoes"
      [] OTHER -> s

----------------------------------------------------------------------------
(* yieldPrediction.ts                                                      *)

CropYieldKeys ==
    {"rice", "wheat", "corn", "maize", "tomatoes", "tomato", "potatoes",
     "potato", "onions", "onion", "beans", "peas", "spinach", "lettuce",
     "carrots", "cucumbers", "peppers", "eggplant"}

\* CROP_YIELD_DATA: yieldPerSqm in tenths of kg, pricePerKg in rupees.
CROP_YIELD_DATA ==
    [k \in CropYieldKeys |->
        CASE k = "rice" -> [yieldPerSqm10 |-> 6, pricePerKg |-> 25, season |-> 150]
          [] k = "wheat" -> [yieldPerSqm10 |-> 4, pricePerKg |-> 22, season |-> 120]
          [] k \in {"corn", "maize"} -> [yieldPerSqm10 |-> 8, pricePerKg |-> 18, season |-> 100]
          [] k \in {"tomatoes", "tomato"} -> [yieldPerSqm10 |-> 40, pricePerKg |-> 30, season |-> 90]
          [] k \in {"potatoes", "potato"} -> [yieldPerSqm10 |-> 25, pricePerKg |-> 20, season |-> 100]
          [] k \in {"onions", "onion"} -> [yieldPerSqm10 |-> 20, pricePerKg |-> 25, season |-> 120]
          [] k = "beans" -> [yieldPerSqm10 |-> 12, pricePerKg |-> 60, season |-> 75]
          [] k = "peas" -> [yieldPerSqm10 |-> 10, pricePerKg |-> 50, season |-> 80]
          [] k = "spinach" -> [yieldPerSqm10 |-> 25, pricePerKg |-> 40, season |-> 45]
          [] k = "lettuce" -> [yieldPerSqm10 |-> 20, pricePerKg |-> 35, season |-> 60]
          [] k = "carrots" -> [yieldPerSqm10 |-> 30, pricePerKg |-> 30, season |-> 90]
          [] k = "cucumbers" -> [yieldPerSqm10 |-> 35, pricePerKg |-> 25, season |-> 70]
          [] k = "peppers" -> [yieldPerSqm10 |-> 25, pricePerKg |-> 45, season |-> 85]
          [] k = "eggplant" -> [yieldPerSqm10 |-> 20, pricePerKg |-> 35, season |-> 100]]

\* CROP_YIELD_DATA[cropKey] || CROP_YIELD_DATA['rice']
BaseYieldData(cropKey) ==
    IF cropKey \in CropYieldKeys THEN CROP_YIELD_DATA[cropKey] ELSE CROP_YIELD_DATA["rice"]

\* crop.detected_area_sqm || crop.farm_area_sqm || 1000
DefaultAreaSqm == 1000

AreaSqmOf(crop) ==
    OrElse(OrElse(crop.detected_area_sqm, crop.farm_area_sqm), Num(DefaultAreaSqm)).v

\* calculateAreaFactor, in twentieths
calculateAreaFactor(areaSqm) ==
    IF areaSqm < 500 THEN 16
    ELSE IF areaSqm < 2000 THEN 18
    ELSE IF areaSqm < 5000 THEN 20
    ELSE IF areaSqm < 20000 THEN 22
    ELSE 23

\* calculateCropTypeFactor, in tenths
calculateCropTypeFactor(cropType) ==
    IF cropType \in {"spinach", "lettuce", "beans", "peas"} THEN 11
    ELSE IF cropType \in {"tomatoes", "tomato", "onions", "onion", "carrots", "cucumbers"} THEN 10
    ELSE IF cropType \in {"rice", "wheat", "corn", "maize", "potatoes", "potato"} THEN 9
    ELSE 10

RECURSIVE SumPrecip(_)
\* forecast.reduce((sum, day) => sum + day.precipitation, 0), in tenths of mm
SumPrecip(forecast) ==
    IF forecast = <<>> THEN 0 ELSE Head(forecast).precipitation + SumPrecip(Tail(forecast))

WeatherDen == 8000

\* variant: the product is returned without the clamp
calculateWeatherFactorUnclamped(w) ==
    LET temp == w.current.temperature
        humidity == w.current.humidity
        tempMul == IF temp >= 20 /\ temp <= 30 THEN 22
                   ELSE IF temp < 10 \/ temp > 40 THEN 14
                   ELSE 18
        humMul == IF humidity >= 50 /\ humidity <= 70 THEN 21
                  ELSE IF humidity < 30 \/ humidity > 90 THEN 17
                  ELSE 20
        n == Len(w.forecast)
        sum10 == SumPrecip(w.forecast)
        rainMul == IF n > 0
                   THEN IF sum10 >= 20 * n /\ sum10 <= 100 * n THEN 22
                        ELSE IF sum10 < 5 * n \/ sum10 > 200 * n THEN 16
                        ELSE 20
                   ELSE 20
    IN  tempMul * humMul * rainMul

\* calculateWeatherFactor, in 1/8000
calculateWeatherFactor(w) ==
    LET temp == w.current.temperature
        humidity == w.current.humidity
        tempMul == IF temp >= 20 /\ temp <= 30 THEN 22
                   ELSE IF temp < 10 \/ temp > 40 THEN 14
                   ELSE 18
        humMul == IF humidity >= 50 /\ humidity <= 70 THEN 21
                  ELSE IF humidity < 30 \/ humidity > 90 THEN 17
                  ELSE 20
        n == Len(w.forecast)
        sum10 == SumPrecip(w.forecast)
        \* avgRainfall = sum / n, compared without dividing
        rainMul == IF n > 0
                   THEN IF sum10 >= 20 * n /\ sum10 <= 100 * n THEN 22
                        ELSE IF sum10 < 5 * n \/ sum10 > 200 * n THEN 16
                        ELSE 20
                   ELSE 20
        factor == tempMul * humMul * rainMul
    IN  Max(WeatherDen \div 2, Min((3 * WeatherDen) \div 2, factor))

\* investment / areaSqm < k, for areaSqm # 0 of either sign
RatioLess(investment, areaSqm, k) ==
    IF areaSqm > 0 THEN investment < k * areaSqm ELSE investment > k * areaSqm

\* calculateInvestmentFactor, in twentieths
calculateInvestmentFactor(investment, areaSqm) ==
    IF RatioLess(investment, areaSqm, 5) THEN 14
    ELSE IF RatioLess(investment, areaSqm, 15) THEN 17
    ELSE IF RatioLess(investment, areaSqm, 30) THEN 20
    ELSE IF RatioLess(investment, areaSqm, 50) THEN 23
    ELSE 25

\* calculateLocationFactor, in twentieths
calculateLocationFactor(lat, lon) ==
    IF ~Truthy(lat) \/ ~Truthy(lon) THEN 20
    ELSE IF lat.v >= 28 /\ lat.v <= 32 /\ lon.v >= 75 /\ lon.v <= 78 THEN 24
    ELSE IF lat.v >= 10 /\ lat.v <= 15 /\ lon.v >= 75 /\ lon.v <= 80 THEN 22
    ELSE IF lat.v >= 20 /\ lat.v <= 25 /\ lon.v >= 80 /\ lon.v <= 85 THEN 21
    ELSE 20

\* calculateConfidenceScore, in hundredths
calculateConfidenceScore(crop, w) ==
    LET c1 == 50 + (IF Truthy(crop.detected_area_sqm) THEN 20
                    ELSE IF Truthy(crop.farm_area_sqm) THEN 10 ELSE 0)
        c2 == c1 + (IF crop.crop_details /\ crop.variety THEN 10 ELSE 0)
        c3 == c2 + (IF Truthy(crop.latitude) /\ Truthy(crop.longitude) THEN 10 ELSE 0)
        c4 == c3 + (IF Truthy(crop.investment_amount) /\ crop.investment_amount.v > 0 THEN 10 ELSE 0)
        c5 == c4 + (IF w.present THEN 10 ELSE 0)
    IN  Max(20, Min(100, c5))

\* denominator of the product of the five factors
FactorDen == 20 * 10 * WeatherDen * 20 * 20

RECURSIVE MulDivQR(_, _, _)
\* <<q, r>> with a * n = q * d + r and 0 <= r < d, for a >= 0 and 0 <= n < d,
\* computed bit by bit so that no intermediate exceeds 3 * d.
MulDivQR(a, n, d) ==
    IF a = 0 THEN <<0, 0>>
    ELSE LET h == MulDivQR(a \div 2, n, d)
             t == 2 * h[2] + (a % 2) * n
         IN  <<2 * h[1] + t \div d, t % d>>

\* Math.round(base10 * tf / FactorDen / 10): base10 is ten times a (possibly
\* negative) integer quantity, tf the clamped total factor over FactorDen.
\* Math.round rounds half up (towards +infinity).
RoundScaled(base10, tf) ==
    LET a == Abs(base10)
        qr == MulDivQR(a, tf % FactorDen, FactorDen)
        q == a * (tf \div FactorDen) + qr[1]
        r == qr[2]
    IN  IF base10 >= 0 THEN (q + 5) \div 10
        ELSE IF r = 0 THEN (5 - q) \div 10
        ELSE (4 - q) \div 10

\* Math.max(0.3, Math.min(2.0, totalFactor)), over FactorDen
ClampTotalFactor(totalFactor) ==
    Max((3 * FactorDen) \div 10, Min(2 * FactorDen, totalFactor))

\* predictYield throws (and its promise rejects) when crop.crop_type is not a
\* string: crop.crop_type.toLowerCase() raises inside the try, the catch rethrows.
PredictYieldThrows(crop) == crop.crop_type = NULL

\* the body of predictYield for a crop on which it does not throw
PredictYieldValue(crop, w) ==
    LET cropKey == ToLowerCase(crop.crop_type)
        baseYieldData == BaseYieldData(cropKey)
        areaSqm == AreaSqmOf(crop)
        base10 == areaSqm * baseYieldData.yieldPerSqm10
        factors == [area |-> calculateAreaFactor(areaSqm),
                    cropType |-> calculateCropTypeFactor(cropKey),
                    weather |-> IF w.present THEN calculateWeatherFactor(w.v) ELSE WeatherDen,
                    investment |-> calculateInvestmentFactor(OrElse(crop.investment_amount, Num(0)).v, areaSqm),
                    location |-> calculateLocationFactor(crop.latitude, crop.longitude)]
        totalFactor == factors.area * factors.cropType * factors.weather
                         * factors.investment * factors.location
        tf == ClampTotalFactor(totalFactor)
    IN  [predictedYieldKg |-> RoundScaled(base10, tf),
         predictedRevenue |-> RoundScaled(base10 * baseYieldData.pricePerKg, tf),
         confidenceScore |-> calculateConfidenceScore(crop, w),
         factors |-> factors,
         \* metadata.assumptions[0] names crop.crop_type and the base yield
         assumedCrop |-> crop.crop_type,
         assumedYieldPerSqm10 |-> baseYieldData.yieldPerSqm10]

\* a settled promise of predictYield
PredictYieldSettled(crop, w) ==
    IF PredictYieldThrows(crop)
    THEN [status |-> "rejected", value |-> <<>>]
    ELSE [status |-> "fulfilled", value |-> <<PredictYieldValue(crop, w)>>]

RECURSIVE FulfilledValuesUntilRejected(_)
\* variant: collecting stops at the first rejected promise
FulfilledValuesUntilRejected(settled) ==
    IF settled = <<>> THEN <<>>
    ELSE IF Head(settled).status = "fulfilled"
         THEN Head(settled).value \o FulfilledValuesUntilRejected(Tail(settled))
         ELSE <<>>

RECURSIVE FulfilledValues(_)
\* predictions.filter(result => result.status === 'fulfilled').map(result => result.value)
FulfilledValues(settled) ==
    IF settled = <<>> THEN <<>>
    ELSE IF Head(settled).status = "fulfilled"
         THEN Head(settled).value \o FulfilledValues(Tail(settled))
         ELSE FulfilledValues(Tail(settled))

\* predictMultipleCropsYield: Promise.allSettled over crops.map(predictYield)
predictMultipleCropsYield(cs, w) ==
    FulfilledValues([i \in 1..Len(cs) |-> PredictYieldSettled(cs[i], w)])

----------------------------------------------------------------------------
(* AI response text                                                        *)
(*                                                                         *)
(* A response text is a sequence of segments separated by white space:     *)
(*   obj     a balanced, syntactically valid JSON object "{...}"; val is   *)
(*           what JSON.parse makes of it                                   *)
(*   lbrace  a stray "{"          rbrace  a stray "}"                      *)
(*   fence   a code fence "```"                                            *)
(*   lit     a JSON literal that is not an object (null, or a number n)    *)
(*   sqm     "<n> square meters"  area  "area: <n>"  ha  "<n> hectares"    *)
(*   sqmhalf "<n>.5 square meters"                                         *)
(*   word    prose without braces, fences or numbers                       *)
(* words is the set of lower-cased vocabulary words occurring in the       *)
(* segment's text.                                                         *)

\* a JSON number-valued member: kind is "missing", "null", "num" or "str"
JMissing == [kind |-> "missing", n |-> 0]

JNull == [kind |-> "null", n |-> 0]

JNum(n) == [kind |-> "num", n |-> n]

JStr == [kind |-> "str", n |-> 0]

\* a JSON array-valued member: kind is "missing", "null", "list" or "str"
\* ("str": a non-empty string where the array was expected)
JNoList == [kind |-> "missing", items |-> <<>>]

JNullList == [kind |-> "null", items |-> <<>>]

JList(items) == [kind |-> "list", items |-> items]

JStrForList == [kind |-> "str", items |-> <<>>]

\* the decoded members the two parsers read; "" is a missing string member
EmptyObj ==
    [detectedAreaSqm |-> JMissing, confidence |-> JMissing, cropType |-> "",
     description |-> "", suggestions |-> JNoList, generalAdvice |-> "",
     riskFactors |-> [kind |-> "missing", items |-> <<>>]]

Seg(kind, val, n, words) == [kind |-> kind, val |-> val, n |-> n, words |-> words]

SegObj(val, words) == Seg("obj", val, 0, words)

SegLBrace == Seg("lbrace", EmptyObj, 0, {})

SegRBrace == Seg("rbrace", EmptyObj, 0, {})

SegFence == Seg("fence", EmptyObj, 0, {})

SegLitNull == Seg("lit", EmptyObj, -1, {})

SegLitNum == Seg("lit", EmptyObj, 5, {})

SegSqm(n) == Seg("sqm", EmptyObj, n, {})

\* "<n>.5 square meters"
SegSqmHalf(n) == Seg("sqmhalf", EmptyObj, n, {})

SegArea(n) == Seg("area", EmptyObj, n, {})

SegHa(n) == Seg("ha", EmptyObj, n, {})

SegWord(words) == Seg("word", EmptyObj, 0, words)

\* segments whose text contains "{" / "}"
HasOpen(seg) == seg.kind \in {"obj", "lbrace"}

HasClose(seg) == seg.kind \in {"obj", "rbrace"}

SubSeqOrEmpty(s, i, j) == IF i <= j THEN SubSeq(s, i, j) ELSE <<>>

\* aiResponse.match(/\{[\s\S]*\}/): the greedy match runs from the first "{"
\* of the text to the last "}" of the text; <<>> when there is no match.
\* The result is <<i, j>>: the match starts at the "{" of segment i and ends
\* at the "}" of segment j.
BraceMatch(text) ==
    LET opens == {i \in 1..Len(text) : HasOpen(text[i])}
        closes == {j \in 1..Len(text) : HasClose(text[j])}
    IN  IF opens = {} \/ closes = {} THEN <<>>
        ELSE LET i == CHOOSE x \in opens : \A y \in opens : x <= y
                 j == CHOOSE x \in closes : \A y \in closes : x >= y
             IN  IF j > i \/ (j = i /\ text[i].kind = "obj") THEN <<i, j>> ELSE <<>>

\* aiResponse.match(/```(?:json)?\s*([\s\S]*?)\s*```/): the segments between
\* the first fence and the next one; <<i, j>> are the two fences.
FenceMatch(text) ==
    LET fences == {i \in 1..Len(text) : text[i].kind = "fence"}
    IN  IF Cardinality(fences) < 2 THEN <<>>
        ELSE LET i == CHOOSE x \in fences : \A y \in fences : x <= y
                 j == CHOOSE x \in fences \ {i} : \A y \in fences \ {i} : x <= y
             IN  <<i, j>>

\* JSON.parse of a run of segments: [ok, isNull, val]; ok = FALSE is a SyntaxError.
\* "{" immediately followed by "}" is the empty object; a lone literal decodes
\* to a non-object value, none of whose members exist.
JsonParse(run) ==
    IF Len(run) = 1 /\ run[1].kind = "obj"
    THEN [ok |-> TRUE, isNull |-> FALSE, val |-> run[1].val]
    ELSE IF Len(run) = 2 /\ run[1].kind = "lbrace" /\ run[2].kind = "rbrace"
    THEN [ok |-> TRUE, isNull |-> FALSE, val |-> EmptyObj]
    ELSE IF Len(run) = 1 /\ run[1].kind = "lit"
    THEN [ok |-> TRUE, isNull |-> run[1].n < 0, val |-> EmptyObj]
    ELSE [ok |-> FALSE, isNull |-> FALSE, val |-> EmptyObj]

\* The try block shared by parseAreaDetectionResponse and parseAIResponse up to
\* the member reads: [structured, val].  structured = FALSE when nothing
\* matched, when JSON.parse threw, or when the decoded value is null (reading
\* a member of null throws a TypeError inside the try).
ExtractJson(text) ==
    LET bm == BraceMatch(text)
        fm == FenceMatch(text)
        run == IF bm # <<>> THEN SubSeq(text, bm[1], bm[2])
               ELSE IF fm # <<>> THEN SubSeqOrEmpty(text, fm[1] + 1, fm[2] - 1)
               ELSE <<>>
        parsed == JsonParse(run)
    IN  IF bm = <<>> /\ fm = <<>> THEN [structured |-> FALSE, val |-> EmptyObj]
        ELSE [structured |-> parsed.ok /\ ~parsed.isNull, val |-> parsed.val]

\* response.toLowerCase().includes(word)
TextIncludes(text, word) == \E i \in 1..Len(text) : word \in text[i].words

\* Number(x) || dflt for a JSON number-valued member: Number(undefined) and
\* Number of a non-numeric string are NaN, Number(null) is 0; NaN and 0 are falsy.
NumberOr(x, dflt) == IF x.kind = "num" /\ x.n # 0 THEN x.n ELSE dflt

\* crop.charAt(0).toUpperCase() + crop.slice(1)
TitleCase(w) ==
    CASE w = "rice" -> "Rice" [] w = "wheat" -> "Wheat" [] w = "corn" -> "Corn"
      [] w = "maize" -> "Maize" [] w = "tomato" -> "Tomato" [] w = "potato" -> "Potato"
      [] w = "onion" -> "Onion" [] w = "beans" -> "Beans" [] w = "peas" -> "Peas"
      [] w = "spinach" -> "Spinach" [] w = "lettuce" -> "Lettuce" [] w = "carrots" -> "Carrots"
      [] w = "cucumber" -> "Cucumber" [] w = "cucumbers" -> "Cucumbers"
      [] w = "pepper" -> "Pepper" [] w = "peppers" -> "Peppers"
      [] w = "eggplant" -> "Eggplant"
      [] OTHER -> w

----------------------------------------------------------------------------
(* areaDetection.ts                                                        *)
(* detectedAreaSqm is in tenths of a square meter, so that 0.8 x hint and   *)
(* a mention such as "1500.5 square meters" are exact; hints, ceilings and *)
(* the numbers of a JSON object are whole square meters.  A description is *)
(* the sequence of the pieces of text it was built from.                   *)

\* farmAreaHint * 0.8, in tenths
HintEstimate(hint) == hint.v * 8

\* variant: the decoded confidence is taken as it is
AreaFromJsonUnclamped(val, hint) ==
    LET area == 10 * Max(0, NumberOr(val.detectedAreaSqm, 0))
        confidence == NumberOr(val.confidence, 50)
        description == <<IF val.description # "" THEN val.description
                         ELSE "Area detected from satellite image">>
        useHint == area = 0 /\ Truthy(hint)
    IN  [detectedAreaSqm |-> IF useHint THEN HintEstimate(hint) ELSE area,
         confidence |-> IF useHint THEN 30 ELSE confidence,
         cropType |-> val.cropType,
         description |-> IF useHint
                         THEN description \o <<" (Fallback estimate based on user input)">>
                         ELSE description]

\* the structured return of parseAreaDetectionResponse (lines 116-131)
AreaFromJson(val, hint) ==
    LET area == 10 * Max(0, NumberOr(val.detectedAreaSqm, 0))
        confidence == Min(100, Max(0, NumberOr(val.confidence, 50)))
        description == <<IF val.description # "" THEN val.description
                         ELSE "Area detected from satellite image">>
        useHint == area = 0 /\ Truthy(hint)
    IN  [detectedAreaSqm |-> IF useHint THEN HintEstimate(hint) ELSE area,
         confidence |-> IF useHint THEN 30 ELSE confidence,
         cropType |-> val.cropType,
         description |-> IF useHint
                         THEN description \o <<" (Fallback estimate based on user input)">>
                         ELSE description]

\* the three areaPatterns, by the kinds of segment each one matches
AreaPatterns == <<{"sqm", "sqmhalf"}, {"area"}, {"ha"}>>

\* parseFloat(match[1]), times 10000 when match[0] mentions hectares, in tenths
MatchArea(seg) ==
    LET area == IF seg.kind = "sqmhalf" THEN 10 * seg.n + 5 ELSE 10 * seg.n
    IN  IF seg.kind = "ha" THEN area * 10000 ELSE area

\* the loops of lines 155-172: patterns in order, matches in text order; the
\* first positive match ends both loops.  0 when no match is positive.  In tenths.
RECURSIVE ScanPatterns(_, _)
ScanPatterns(text, k) ==
    IF k > Len(AreaPatterns) THEN 0
    ELSE LET hits == {i \in 1..Len(text) :
                        text[i].kind \in AreaPatterns[k] /\ MatchArea(text[i]) > 0}
         IN  IF hits # {}
             THEN Max(0, MatchArea(text[CHOOSE i \in hits : \A j \in hits : i <= j]))
             ELSE ScanPatterns(text, k + 1)

\* cropTypes of parseUnstructuredAreaResponse
AreaCropTypes ==
    <<"rice", "wheat", "corn", "maize", "tomato", "potato", "onion", "beans", "peas",
      "spinach", "lettuce", "carrots", "cucumber", "pepper", "eggplant">>

\* the first entry of a vocabulary that occurs in the text, "" when none does
FirstMention(text, vocabulary) ==
    LET hits == {k \in 1..Len(vocabulary) : TextIncludes(text, vocabulary[k])}
    IN  IF hits = {} THEN ""
        ELSE vocabulary[CHOOSE k \in hits : \A j \in hits : k <= j]

\* variant: the area is returned without Math.round
parseUnstructuredAreaResponseUnrounded(response, hint) ==
    LET scanned == ScanPatterns(response, 1)
        useHint == scanned = 0 /\ Truthy(hint)
        detectedAreaSqm == IF useHint THEN HintEstimate(hint) ELSE scanned
        confidence == IF useHint THEN 20 ELSE IF scanned > 0 THEN 40 ELSE 30
    IN  [detectedAreaSqm |-> detectedAreaSqm,
         confidence |-> confidence,
         cropType |-> TitleCase(FirstMention(response, AreaCropTypes)),
         description |-> <<"Estimated crop area from satellite analysis. ">>]

parseUnstructuredAreaResponse(response, hint) ==
    LET scanned == ScanPatterns(response, 1)
        useHint == scanned = 0 /\ Truthy(hint)
        detectedAreaSqm == IF useHint THEN HintEstimate(hint) ELSE scanned
        confidence == IF useHint THEN 20 ELSE IF scanned > 0 THEN 40 ELSE 30
    IN  [detectedAreaSqm |-> 10 * RoundDiv(detectedAreaSqm, 10),
         confidence |-> confidence,
         cropType |-> TitleCase(FirstMention(response, AreaCropTypes)),
         description |-> <<"Estimated crop area from satellite analysis. ">>]

\* which return statement parseAreaDetectionResponse / parseAIResponse takes
ParseTier(aiText) == IF ExtractJson(aiText).structured THEN "structured" ELSE "fallback"

parseAreaDetectionResponse(aiText, hint) ==
    LET ex == ExtractJson(aiText)
    IN  IF ex.structured THEN AreaFromJson(ex.val, hint)
        ELSE parseUnstructuredAreaResponse(aiText, hint)

DefaultMaxReasonableArea == 100000

\* variant: capping the area leaves the confidence as it is
validateAreaDetectionKeepsConfidence(result, ceiling) ==
    LET capped == result.detectedAreaSqm > 10 * ceiling
        r1 == IF capped
              THEN [result EXCEPT !.detectedAreaSqm = 10 * ceiling,
                                  !.description = @ \o <<" (Area capped at maximum reasonable size)">>]
              ELSE result
    IN  IF r1.detectedAreaSqm < 10 * 10
        THEN [r1 EXCEPT !.confidence = Min(r1.confidence, 30),
                        !.description = @ \o <<" (Very small area detected, low confidence)">>]
        ELSE r1

validateAreaDetection(result, ceiling) ==
    LET capped == result.detectedAreaSqm > 10 * ceiling
        r1 == IF capped
              THEN [result EXCEPT !.detectedAreaSqm = 10 * ceiling,
                                  !.confidence = Min(result.confidence, 50),
                                  !.description = @ \o <<" (Area capped at maximum reasonable size)">>]
              ELSE result
    IN  IF r1.detectedAreaSqm < 10 * 10
        THEN [r1 EXCEPT !.confidence = Min(r1.confidence, 30),
                        !.description = @ \o <<" (Very small area detected, low confidence)">>]
        ELSE r1

----------------------------------------------------------------------------
(* cropSuggestions.ts                                                      *)
(* averageTemperature and averageRainfall are in tenths.  A response's     *)
(* suggestions and riskFactors are JSON array-valued members, because the  *)
(* structured path hands on whatever the decoded object holds.             *)

Suggestion(name, timeframe) == [cropName |-> name, plantingTimeframe |-> timeframe]

\* parsed.x || dflt for an array-valued member: undefined and null are falsy,
\* every array (also the empty one) and every non-empty string is truthy
ListOr(x, dflt) == IF x.kind \in {"missing", "null"} THEN JList(dflt) ELSE x

\* variant: rice already at a rainfall of exactly 50
getBasicFallbackSuggestionsInclusive(summary) ==
    LET temp == summary.nextTwoMonths.averageTemperature
        rainfall == summary.nextTwoMonths.averageRainfall
        staple == IF temp >= 200 /\ temp <= 300
                  THEN IF rainfall >= 500
                       THEN <<Suggestion("Rice", "Next 2-3 weeks")>>
                       ELSE <<Suggestion("Wheat", "Next 2-4 weeks")>>
                  ELSE <<>>
        tomatoes == IF temp >= 150 /\ temp <= 250
                    THEN <<Suggestion("Tomatoes", "Next 1-2 weeks")>>
                    ELSE <<>>
    IN  SubSeq(staple \o tomatoes, 1, Min(3, Len(staple \o tomatoes)))

getBasicFallbackSuggestions(summary) ==
    LET temp == summary.nextTwoMonths.averageTemperature
        rainfall == summary.nextTwoMonths.averageRainfall
        staple == IF temp >= 200 /\ temp <= 300
                  THEN IF rainfall > 500
                       THEN <<Suggestion("Rice", "Next 2-3 weeks")>>
                       ELSE <<Suggestion("Wheat", "Next 2-4 weeks")>>
                  ELSE <<>>
        tomatoes == IF temp >= 150 /\ temp <= 250
                    THEN <<Suggestion("Tomatoes", "Next 1-2 weeks")>>
                    ELSE <<>>
    IN  SubSeq(staple \o tomatoes, 1, Min(3, Len(staple \o tomatoes)))

\* commonCrops of parseUnstructuredResponse
CommonCrops ==
    <<"rice", "wheat", "maize", "corn", "tomato", "potato", "onion", "beans", "peas",
      "spinach", "lettuce", "carrots", "cucumbers", "peppers", "eggplant">>

RECURSIVE KeywordSuggestions(_, _, _)
\* the loop of lines 665-678 from vocabulary entry k on, acc collected so far
KeywordSuggestions(response, k, acc) ==
    IF k > Len(CommonCrops) THEN acc
    ELSE IF TextIncludes(response, CommonCrops[k])
         THEN LET acc2 == Append(acc, Suggestion(TitleCase(CommonCrops[k]), "Next 2-4 weeks"))
              IN  IF Len(acc2) >= 3 THEN acc2
                  ELSE KeywordSuggestions(response, k + 1, acc2)
         ELSE KeywordSuggestions(response, k + 1, acc)

parseUnstructuredResponse(response, summary, clock) ==
    LET resp == KeywordSuggestions(response, 1, <<>>)
    IN  [location |-> summary.location,
         analysisDate |-> clock,
         suggestions |-> JList(IF Len(resp) > 0 THEN resp
                               ELSE getBasicFallbackSuggestions(summary)),
         generalAdvice |-> "Based on current weather patterns, focus on crops that match your local climate conditions.",
         riskFactors |-> JList(<<"Monitor weather changes", "Ensure proper drainage if heavy rains expected">>)]

\* variant: a missing riskFactors defaults to the empty list
parseAIResponseEmptyRisks(aiText, summary, clock) ==
    LET ex == ExtractJson(aiText)
    IN  IF ex.structured
        THEN [location |-> summary.location,
              analysisDate |-> clock,
              suggestions |-> ListOr(ex.val.suggestions, <<>>),
              generalAdvice |-> IF ex.val.generalAdvice # "" THEN ex.val.generalAdvice
                                ELSE "Consider weather conditions carefully when planning your crops.",
              riskFactors |-> ListOr(ex.val.riskFactors, <<>>)]
        ELSE parseUnstructuredResponse(aiText, summary, clock)

parseAIResponse(aiText, summary, clock) ==
    LET ex == ExtractJson(aiText)
    IN  IF ex.structured
        THEN [location |-> summary.location,
              analysisDate |-> clock,
              suggestions |-> ListOr(ex.val.suggestions, <<>>),
              generalAdvice |-> IF ex.val.generalAdvice # "" THEN ex.val.generalAdvice
                                ELSE "Consider weather conditions carefully when planning your crops.",
              riskFactors |-> ListOr(ex.val.riskFactors, <<"Monitor weather changes closely">>)]
        ELSE parseUnstructuredResponse(aiText, summary, clock)

\* the tier whose return statement produces the response
SuggestionTier(aiText) ==
    IF ExtractJson(aiText).structured THEN "structured"
    ELSE IF Len(KeywordSuggestions(aiText, 1, <<>>)) > 0 THEN "keyword"
    ELSE "rule-based"

\* the catch block of getCropSuggestions
SuggestionsUnavailable(summary, clock) ==
    [location |-> summary.location,
     analysisDate |-> clock,
     suggestions |-> JList(getBasicFallbackSuggestions(summary)),
     generalAdvice |-> "AI analysis temporarily unavailable. Please consult local agricultural experts for detailed advice.",
     riskFactors |-> JList(<<"Unable to analyze current weather risks. Monitor weather conditions closely.">>)]

\* getCropSuggestions: service is [failed, text], the outcome of sendTextMessage
getCropSuggestions(summary, service, clock) ==
    IF service.failed THEN SuggestionsUnavailable(summary, clock)
    ELSE parseAIResponse(service.text, summary, clock)

----------------------------------------------------------------------------
(* alertsService.ts                                                        *)

\* formatRelativeTime, for the seconds elapsed since the date was taken
formatRelativeTime(diffInSeconds) ==
    IF diffInSeconds < 60 THEN "Just now"
    ELSE IF diffInSeconds < 3600 THEN "minutes ago"
    ELSE IF diffInSeconds < 86400 THEN "hours ago"
    ELSE "days ago"

\* every alert of a cycle is stamped formatRelativeTime(now) right after now is taken
Alert(id, title, severity, category, description) ==
    [id |-> id, title |-> title, severity |-> severity, category |-> category,
     time |-> formatRelativeTime(0), description |-> description]

\* weatherData.forecast.slice(0, 3).reduce(...), in tenths of mm
UpcomingRain(forecast) == SumPrecip(SubSeq(forecast, 1, Min(3, Len(forecast))))

\* variant: a value at its threshold fires as well
generateWeatherAlertsInclusive(w) ==
    LET upcomingRain == UpcomingRain(w.forecast)
    IN  (IF w.current.temperature >= 35
         THEN <<Alert("temp-high", "High Temperature Alert", "warning", "weather", "heat")>> ELSE <<>>)
     \o (IF w.current.temperature <= 5
         THEN <<Alert("temp-low", "Frost Warning", "urgent", "weather", "frost")>> ELSE <<>>)
     \o (IF w.current.humidity >= 90
         THEN <<Alert("humidity-high", "High Humidity Warning", "warning", "weather", "humidity")>> ELSE <<>>)
     \o (IF w.current.windSpeed >= 15
         THEN <<Alert("wind-high", "Strong Wind Warning", "warning", "weather", "wind")>> ELSE <<>>)
     \o (IF Len(w.forecast) > 0
         THEN IF upcomingRain >= 500
              THEN <<Alert("rain-heavy", "Heavy Rainfall Expected", "warning", "weather", "rain")>>
              ELSE IF upcomingRain <= 20
              THEN <<Alert("rain-low", "Dry Period Ahead", "normal", "weather", "dry")>>
              ELSE <<>>
         ELSE <<>>)

\* variant: the humidity alert is urgent as well
generateWeatherAlertsUrgentHumidity(w) ==
    LET upcomingRain == UpcomingRain(w.forecast)
    IN  (IF w.current.temperature > 35
         THEN <<Alert("temp-high", "High Temperature Alert", "warning", "weather", "heat")>> ELSE <<>>)
     \o (IF w.current.temperature < 5
         THEN <<Alert("temp-low", "Frost Warning", "urgent", "weather", "frost")>> ELSE <<>>)
     \o (IF w.current.humidity > 90
         THEN <<Alert("humidity-high", "High Humidity Warning", "urgent", "weather", "humidity")>> ELSE <<>>)
     \o (IF w.current.windSpeed > 15
         THEN <<Alert("wind-high", "Strong Wind Warning", "warning", "weather", "wind")>> ELSE <<>>)
     \o (IF Len(w.forecast) > 0
         THEN IF upcomingRain > 500
              THEN <<Alert("rain-heavy", "Heavy Rainfall Expected", "warning", "weather", "rain")>>
              ELSE IF upcomingRain < 20
              THEN <<Alert("rain-low", "Dry Period Ahead", "normal", "weather", "dry")>>
              ELSE <<>>
         ELSE <<>>)

generateWeatherAlerts(w) ==
    LET upcomingRain == UpcomingRain(w.forecast)
    IN  (IF w.current.temperature > 35
         THEN <<Alert("temp-high", "High Temperature Alert", "warning", "weather", "heat")>> ELSE <<>>)
     \o (IF w.current.temperature < 5
         THEN <<Alert("temp-low", "Frost Warning", "urgent", "weather", "frost")>> ELSE <<>>)
     \o (IF w.current.humidity > 90
         THEN <<Alert("humidity-high", "High Humidity Warning", "warning", "weather", "humidity")>> ELSE <<>>)
     \o (IF w.current.windSpeed > 15
         THEN <<Alert("wind-high", "Strong Wind Warning", "warning", "weather", "wind")>> ELSE <<>>)
     \o (IF Len(w.forecast) > 0
         THEN IF upcomingRain > 500
              THEN <<Alert("rain-heavy", "Heavy Rainfall Expected", "warning", "weather", "rain")>>
              ELSE IF upcomingRain < 20
              THEN <<Alert("rain-low", "Dry Period Ahead", "normal", "weather", "dry")>>
              ELSE <<>>
         ELSE <<>>)

\* plantingTimeframe.toLowerCase() includes 'immediate', 'now' or '1-2 week',
\* on the timeframe texts of the model
IsUrgentTimeframe(timeframe) == timeframe \in {"Next 1-2 weeks", "Immediately", "Plant now"}

RiskId(index) == CASE index = 0 -> "risk-0" [] index = 1 -> "risk-1" [] index = 2 -> "risk-2" [] OTHER -> "risk-n"

generateCropSuggestionAlerts(resp) ==
    LET risks == resp.riskFactors.items
        urgentCrops == SelectSeq(resp.suggestions.items,
                                 LAMBDA crop : IsUrgentTimeframe(crop.plantingTimeframe))
    IN  [i \in 1..Len(risks) |->
            Alert(RiskId(i - 1), "Weather Risk Detected", "warning", "weather", risks[i])]
     \o (IF Len(urgentCrops) > 0
         THEN <<Alert("planting-urgent", "Optimal Planting Window", "normal", "crop", "planting")>> ELSE <<>>)
     \o (IF resp.generalAdvice # ""
         THEN <<Alert("advice", "Farming Recommendation", "normal", "general", resp.generalAdvice)>> ELSE <<>>)

\* variant: the ranks of urgent and warning exchanged
severityOrderSwapped(severity) ==
    CASE severity = "urgent" -> 1 [] severity = "warning" -> 0 [] OTHER -> 2

severityOrder(severity) ==
    CASE severity = "urgent" -> 0 [] severity = "warning" -> 1 [] OTHER -> 2

\* new Date(alert.time).getTime(): the relative-time labels are not dates, the
\* result is NaN (not present)
TimeOfLabel(label) == Absent

\* the comparator of lines 283-289; a NaN result counts as 0 in Array.prototype.sort
CompareAlerts(a, b) ==
    IF severityOrder(a.severity) # severityOrder(b.severity)
    THEN severityOrder(a.severity) - severityOrder(b.severity)
    ELSE IF TimeOfLabel(b.time).present /\ TimeOfLabel(a.time).present
         THEN TimeOfLabel(b.time).v - TimeOfLabel(a.time).v
         ELSE 0

RECURSIVE InsertAlert(_, _)
\* x placed behind every element that does not compare greater than it
InsertAlert(sorted, x) ==
    IF sorted = <<>> THEN <<x>>
    ELSE IF CompareAlerts(Head(sorted), x) <= 0
         THEN <<Head(sorted)>> \o InsertAlert(Tail(sorted), x)
         ELSE <<x>> \o sorted

RECURSIVE SortAlerts(_)
\* Array.prototype.sort with CompareAlerts: a stable sort
SortAlerts(alerts) ==
    IF alerts = <<>> THEN <<>>
    ELSE InsertAlert(SortAlerts(SubSeq(alerts, 1, Len(alerts) - 1)), alerts[Len(alerts)])

\* the alerts of one cycle in the order they are pushed
ConstructedAlerts(w, resp) ==
    (IF w.present THEN generateWeatherAlerts(w.v) ELSE <<>>)
     \o (IF resp.present THEN generateCropSuggestionAlerts(resp.v) ELSE <<>>)

generateAlertsFromWeatherAndCrops(w, resp) ==
    SortAlerts(ConstructedAlerts(w, resp))

\* variant: only the urgent alerts pass the filter
getTopAlertsUrgentOnly(alerts, count) ==
    LET high == SelectSeq(alerts, LAMBDA alert : alert.severity = "urgent")
    IN  SubSeq(high, 1, Min(count, Len(high)))

\* getTopAlerts, for a count >= 0
getTopAlerts(alerts, count) ==
    LET high == SelectSeq(alerts, LAMBDA alert : alert.severity = "urgent" \/ alert.severity = "warning")
    IN  SubSeq(high, 1, Min(count, Len(high)))

generateFallbackAlerts ==
    <<Alert("fallback-weather", "Weather Data Unavailable", "normal", "general", "unavailable"),
      Alert("fallback-general", "Monitor Weather Conditions", "normal", "general", "monitor")>>

\* variant: the fallback is taken on an error only
useAlertsAllAlertsOnErrorOnly(loading, err, w, resp) ==
    IF loading THEN <<>>
    ELSE IF err # "" THEN generateFallbackAlerts
    ELSE generateAlertsFromWeatherAndCrops(w, resp)

\* allAlerts of the useAlerts hook (useAlerts.ts lines 29-39); err is "" for null
useAlertsAllAlerts(loading, err, w, resp) ==
    IF loading THEN <<>>
    ELSE IF err # "" \/ (~w.present /\ ~resp.present) THEN generateFallbackAlerts
    ELSE generateAlertsFromWeatherAndCrops(w, resp)

----------------------------------------------------------------------------
(* weatherService.ts                                                       *)
(* A sample of data.list carries dt in seconds, temperatures in tenths of  *)
(* a degree, humidity in percent, rain['3h'] and wind.speed in hundredths. *)
(* A DailyForecast carries whole degrees, whole percent, and precipitation *)
(* and wind speed in tenths.  In a WeatherSummary averageRainfall and      *)
(* averageTemperature are in tenths.  The precipitation values the model   *)
(* feeds to generateWeatherSummary are multiples of 0.5 mm, whose sums are  *)
(* exact in doubles as well.                                               *)

SecondsPerDay == 86400

\* new Date(item.dt * 1000).toISOString().split('T')[0]: the UTC calendar
\* day, counted in days since the epoch
ISODate(dt) == dt \div SecondsPerDay

\* a number that may be NaN
NaN == [nan |-> TRUE, n |-> 0]

Finite(n) == [nan |-> FALSE, n |-> n]

\* Math.round(n / d) when the division may be 0 / 0
RoundDivOrNaN(n, d) == IF d = 0 THEN NaN ELSE Finite(RoundDiv(n, d))

RECURSIVE SumSeq(_)
SumSeq(numbers) == IF numbers = <<>> THEN 0 ELSE Head(numbers) + SumSeq(Tail(numbers))

\* item.rain?.['3h'] || 0
RainOf(item) == IF Truthy(item.rain3h) THEN item.rain3h.v ELSE 0

\* the entry set for a date seen for the first time (lines 106-116)
NewDay(item) ==
    [date |-> ISODate(item.dt),
     maxTemp |-> item.temp_max,
     minTemp |-> item.temp_min,
     humidity |-> item.humidity,
     precipitation |-> RainOf(item),
     conditions |-> item.description,
     windSpeed |-> item.speed,
     tempReadings |-> <<item.temp>>,
     humidityReadings |-> <<item.humidity>>]

\* the update of the entry of a date seen before (lines 118-123)
FoldDay(existing, item) ==
    [existing EXCEPT !.maxTemp = Max(@, item.temp_max),
                     !.minTemp = Min(@, item.temp_min),
                     !.precipitation = @ + RainOf(item),
                     !.tempReadings = Append(@, item.temp),
                     !.humidityReadings = Append(@, item.humidity)]

RECURSIVE GroupByDate(_, _)
\* data.list.forEach(...): days is the Map dailyForecasts, in insertion order
GroupByDate(list, days) ==
    IF list = <<>> THEN days
    ELSE LET item == Head(list)
             hit == {k \in 1..Len(days) : days[k].date = ISODate(item.dt)}
         IN  IF hit = {}
             THEN GroupByDate(Tail(list), Append(days, NewDay(item)))
             ELSE LET k == CHOOSE j \in hit : TRUE
                  IN  GroupByDate(Tail(list), [days EXCEPT ![k] = FoldDay(days[k], item)])

\* the map of lines 128-136
DailyForecast(day) ==
    [date |-> day.date,
     maxTemp |-> RoundDiv(day.maxTemp, 10),
     minTemp |-> RoundDiv(day.minTemp, 10),
     humidity |-> RoundDiv(SumSeq(day.humidityReadings), Len(day.humidityReadings)),
     precipitation |-> RoundDiv(day.precipitation, 10),
     conditions |-> day.conditions,
     windSpeed |-> RoundDiv(day.windSpeed, 10)]

\* variant: every sample opens an entry of its own
processForecastDataUngrouped(list) ==
    [k \in 1..Len(list) |-> DailyForecast(NewDay(list[k]))]

processForecastData(list) ==
    LET days == GroupByDate(list, <<>>)
    IN  [k \in 1..Len(days) |-> DailyForecast(days[k])]

\* getWeatherForecast (lines 46-94): a failed request, and data.list[0] of an
\* empty list, end in the catch block, which throws
GetWeatherForecastThrows(failed, list) == failed \/ list = <<>>

\* sum of (day.maxTemp + day.minTemp): twice the sum of the midpoints
RECURSIVE MidpointSum2(_)
MidpointSum2(forecast) ==
    IF forecast = <<>> THEN 0
    ELSE Head(forecast).maxTemp + Head(forecast).minTemp + MidpointSum2(Tail(forecast))

RECURSIVE SumHumidity(_)
SumHumidity(forecast) ==
    IF forecast = <<>> THEN 0 ELSE Head(forecast).humidity + SumHumidity(Tail(forecast))

\* new Date(date).toLocaleDateString('en-US', ...): the date string is read as
\* UTC midnight and shown in the host's zone, the day before in a zone west of UTC
LocaleDate(date, west) == IF west THEN date - 1 ELSE date

\* `${startDate} - ${endDate}`
PeriodLabel(period, west) ==
    [startDate |-> LocaleDate(period[1].date, west), endDate |-> LocaleDate(period[3].date, west)]

\* the condition of line 161 on forecast.slice(i, i + 3), i counted from 1
GoodPeriod(period) ==
    /\ MidpointSum2(period) >= 2 * 3 * 15
    /\ MidpointSum2(period) <= 2 * 3 * 35
    /\ SumPrecip(period) < 100
    /\ SumPrecip(period) > 10

\* the loop of lines 156-166
BestPlantingPeriods(forecast, west) ==
    LET starts == SelectSeq([i \in 1..Max(0, Len(forecast) - 2) |-> i],
                            LAMBDA i : GoodPeriod(SubSeq(forecast, i, i + 2)))
    IN  [k \in 1..Len(starts) |-> PeriodLabel(SubSeq(forecast, starts[k], starts[k] + 2), west)]

generateWeatherSummary(forecast, west) ==
    LET totalRainfall == SumPrecip(forecast)
        rainyDays == Len(SelectSeq(forecast, LAMBDA day : day.precipitation > 5))
        dryDays == Len(forecast) - rainyDays
        bestPlantingPeriods == BestPlantingPeriods(forecast, west)
    IN  [nextTwoMonths |->
            [averageRainfall |-> Finite(RoundDiv(totalRainfall, 1)),
             averageTemperature |-> RoundDivOrNaN(10 * MidpointSum2(forecast), 2 * Len(forecast)),
             averageHumidity |-> RoundDivOrNaN(SumHumidity(forecast), Len(forecast)),
             rainyDays |-> rainyDays,
             dryDays |-> dryDays,
             bestPlantingPeriods |-> SubSeq(bestPlantingPeriods, 1, Min(3, Len(bestPlantingPeriods)))]]

----------------------------------------------------------------------------
(* Inputs                                                                  *)

MaxCrops == 3

MaxSegs == 3

MaxTopCount == 3

MaxAlerts == 3

Clock == {1, 2}

SeqsUpTo(S, n) == UNION {[1..k -> S] : k \in 0..n}

CropTypes == {"rice", "Spinach", "quinoa", NULL}

DetectedAreas == {Absent, Num(0), Num(-100), Num(400), Num(25000)}

FarmAreas == {Absent, Num(3000)}

Investments == {Absent, Num(-5000), Num(20000), Num(2000000)}

Coordinates == {<<Absent, Absent>>, <<Num(30), Num(76)>>, <<Num(22), Num(82)>>}

CropDomain ==
    {[crop_type |-> t, variety |-> d, crop_details |-> d,
      latitude |-> ll[1], longitude |-> ll[2],
      farm_area_sqm |-> fa, detected_area_sqm |-> da, investment_amount |-> inv] :
        t \in CropTypes, d \in BOOLEAN, ll \in Coordinates,
        fa \in FarmAreas, da \in DetectedAreas, inv \in Investments}

Day(p) == [precipitation |-> p]

Forecasts == {<<>>, <<Day(0), Day(0), Day(0)>>, <<Day(50), Day(30)>>, <<Day(300), Day(250), Day(200), Day(10)>>}

Weather(t, h, ws, f) ==
    [present |-> TRUE,
     v |-> [current |-> [temperature |-> t, humidity |-> h, windSpeed |-> ws], forecast |-> f]]

\* weatherData undefined / null
NoWeather ==
    [present |-> FALSE,
     v |-> [current |-> [temperature |-> 0, humidity |-> 0, windSpeed |-> 0], forecast |-> <<>>]]

\* readings and mean rainfalls on and next to the thresholds of calculateWeatherFactor
ThresholdWeather ==
    {Weather(t, 60, 3, <<Day(50), Day(30)>>) : t \in {9, 10, 19, 20, 30, 31, 40, 41}}
    \cup {Weather(25, h, 3, <<Day(50), Day(30)>>) : h \in {29, 30, 49, 50, 70, 71, 90, 91}}
    \cup {Weather(25, 60, 3, f) :
            f \in {<<Day(4)>>, <<Day(5)>>, <<Day(19)>>, <<Day(20), Day(20)>>,
                   <<Day(100)>>, <<Day(101)>>, <<Day(200)>>, <<Day(201)>>}}

WeatherDomain ==
    {NoWeather} \cup {Weather(t, h, 3, f) : t \in {5, 25, 35}, h \in {20, 60, 80}, f \in Forecasts}
    \cup ThresholdWeather

\* the crops a batch is drawn from: two that predict and two that throw
BatchCrop(t, da) ==
    [crop_type |-> t, variety |-> FALSE, crop_details |-> FALSE,
     latitude |-> Absent, longitude |-> Absent,
     farm_area_sqm |-> Absent, detected_area_sqm |-> da, investment_amount |-> Num(20000)]

BatchCrops == {BatchCrop("rice", Num(1000)), BatchCrop("TOMATOES", Absent),
               BatchCrop(NULL, Num(1000)), BatchCrop(NULL, Absent)}

BatchWeather == {NoWeather, Weather(25, 60, 3, <<Day(50), Day(30)>>)}

\* what a vision response may hold
AreaObj(area, confidence, cropType, description) ==
    [EmptyObj EXCEPT !.detectedAreaSqm = area, !.confidence = confidence,
                     !.cropType = cropType, !.description = description]

AreaSegs ==
    {SegObj(AreaObj(JNum(1500), JNum(70), "Tomato", "a field"), {"tomato"}),
     SegObj(AreaObj(JNum(0), JNum(250), "", ""), {}),
     SegObj(AreaObj(JNum(250000), JNum(-50), "", "a region"), {}),
     SegObj(AreaObj(JNum(-500), JStr, "", ""), {}),
     SegSqm(1500), SegSqmHalf(1500), SegSqm(0), SegArea(5), SegHa(30),
     SegWord({"tomato"}), SegLBrace, SegRBrace, SegFence, SegLitNull}

AreaHints == {Absent, Num(0), Num(-100), Num(1003)}

AreaCeilings == {DefaultMaxReasonableArea, 1000, 5}

\* what a text response may hold
SuggObj(suggs, advice, risks) ==
    [EmptyObj EXCEPT !.suggestions = suggs, !.generalAdvice = advice, !.riskFactors = risks]

SixSuggestions ==
    <<Suggestion("Rice", "Next 1-2 weeks"), Suggestion("Wheat", "Next month"),
      Suggestion("Maize", "Next month"), Suggestion("Cotton", "Next month"),
      Suggestion("Okra", "Next month"), Suggestion("Millet", "Next month")>>

SuggSegs ==
    {SegObj(SuggObj(JList(SubSeq(SixSuggestions, 1, 2)), "Irrigate early.", JList(<<"Heat wave">>)), {"rice", "wheat"}),
     SegObj(SuggObj(JList(SixSuggestions), "", JNoList), {"rice", "wheat", "maize"}),
     SegObj(SuggObj(JNullList, "", JNullList), {}),
     SegObj(SuggObj(JStrForList, "", JList(<<>>)), {"rice"}),
     SegWord({"rice", "wheat", "maize", "corn"}), SegWord({"tomato"}), SegWord({}),
     SegLBrace, SegRBrace, SegFence, SegLitNull, SegLitNum}

Summary(temp, rainfall) ==
    [location |-> "Pune", nextTwoMonths |-> [averageTemperature |-> temp, averageRainfall |-> rainfall]]

Summaries == {Summary(t, r) : t \in {140, 150, 200, 250, 300, 310}, r \in {500, 501}}

NoSummary == Summary(0, 0)

\* what the alert engine may be given
AlertWeather ==
    {NoWeather} \cup
    {Weather(t, h, ws, f) : t \in {3, 5, 25, 35, 40}, h \in {60, 90, 95}, ws \in {3, 15, 20},
                            f \in {<<>>, <<Day(0), Day(0), Day(0)>>, <<Day(50), Day(30)>>,
                                   <<Day(300), Day(250), Day(10), Day(0)>>,
                                   <<Day(300), Day(200), Day(0), Day(400)>>,
                                   <<Day(10), Day(10)>>, <<Day(10), Day(9)>>}}

Response(suggs, advice, risks) ==
    [present |-> TRUE,
     v |-> [location |-> "Pune", analysisDate |-> 1, suggestions |-> JList(suggs),
            generalAdvice |-> advice, riskFactors |-> JList(risks)]]

NoResponse ==
    [present |-> FALSE,
     v |-> [location |-> "", analysisDate |-> 0, suggestions |-> JList(<<>>),
            generalAdvice |-> "", riskFactors |-> JList(<<>>)]]

AlertSuggestions ==
    {NoResponse} \cup
    {Response(suggs, advice, risks) :
        suggs \in {<<>>, SubSeq(SixSuggestions, 1, 2), SubSeq(SixSuggestions, 2, 3)},
        advice \in {"", "Irrigate early."},
        risks \in {<<>>, <<"Heat wave">>, <<"Heat wave", "Pest outbreak">>}}

\* alert lists in any order, for direct calls of getTopAlerts
SampleAlerts ==
    {Alert("temp-low", "Frost Warning", "urgent", "weather", "frost"),
     Alert("wind-high", "Strong Wind Warning", "warning", "weather", "wind"),
     Alert("risk-0", "Weather Risk Detected", "warning", "weather", "Heat wave"),
     Alert("advice", "Farming Recommendation", "normal", "general", "Irrigate early.")}

\* what the weather service may return in data.list
Sample(dt, tmin, temp, tmax, humidity, rain, description, speed) ==
    [dt |-> dt, temp |-> temp, temp_min |-> tmin, temp_max |-> tmax, humidity |-> humidity,
     rain3h |-> rain, description |-> description, speed |-> speed]

MaxSamples == 3

\* two samples of one day, two of the next, one of the day after
Samples ==
    {Sample(10800, 206, 214, 224, 60, Absent, "clear sky", 314),
     Sample(75600, 155, 170, 185, 81, Num(126), "light rain", 600),
     Sample(86400, 144, 150, 165, 90, Num(4), "light rain", 226),
     Sample(97200, -6, 0, 5, 45, Num(0), "snow", 1205),
     Sample(183600, 300, 310, 325, 30, Num(1000), "heavy rain", 95)}

MaxDays == 6

\* the days a forecast handed to generateWeatherSummary is made of
DayKind(maxTemp, minTemp, humidity, precipitation) ==
    [maxTemp |-> maxTemp, minTemp |-> minTemp, humidity |-> humidity, precipitation |-> precipitation]

DayKinds ==
    {DayKind(27, 17, 70, 50), DayKind(27, 17, 40, 0), DayKind(20, 10, 55, 5),
     DayKind(40, 30, 20, 20), DayKind(42, 32, 15, 30)}

FirstDate == 19700

\* consecutive dates from FirstDate on, as the weather service reports them
Dated(kinds) ==
    [i \in 1..Len(kinds) |->
        [date |-> FirstDate + i - 1, maxTemp |-> kinds[i].maxTemp, minTemp |-> kinds[i].minTemp,
         humidity |-> kinds[i].humidity, precipitation |-> kinds[i].precipitation,
         conditions |-> "clear sky", windSpeed |-> 30]]

DailyForecasts == {Dated(kinds) : kinds \in SeqsUpTo(DayKinds, MaxDays)}

----------------------------------------------------------------------------
(* MetricsScreen.tsx                                                       *)

\* the three members of a prediction that MetricsScreen reads
Shown(prediction) ==
    [predictedYieldKg |-> prediction.predictedYieldKg,
     predictedRevenue |-> prediction.predictedRevenue,
     confidenceScore |-> prediction.confidenceScore]

\* the placeholder of lines 63-67
ZeroPrediction == [predictedYieldKg |-> 0, predictedRevenue |-> 0, confidenceScore |-> 30]

\* activeCrops.map((crop, index) => ({ crop, prediction: predictions[index] || {...} })):
\* predictions[index] is undefined from the length of predictions on
metricsData(activeCrops, preds) ==
    [index \in 1..Len(activeCrops) |->
        [crop |-> activeCrops[index],
         prediction |-> IF index <= Len(preds) THEN Shown(preds[index]) ELSE ZeroPrediction]]

\* one call updateCropYieldPrediction(crop.id, {...}) and whether it threw
UpdateCall(metric, w, failed) ==
    [crop |-> metric.crop,
     predicted_yield_kg |-> metric.prediction.predictedYieldKg,
     predicted_revenue |-> metric.prediction.predictedRevenue,
     confidence_score |-> metric.prediction.confidenceScore,
     weather_included |-> w.present,
     failed |-> failed]

\* variant: a failed update reaches the catch of loadMetrics
AfterUpdateUncaught(failed, err) ==
    [error |-> IF failed THEN "Failed to update yield prediction" ELSE err, proceeds |-> ~failed]

\* the try/catch around one update (lines 74-86): a failure is logged, the
\* error state stays as it is and the loop goes on
AfterUpdate(failed, err) == [error |-> err, proceeds |-> TRUE]

----------------------------------------------------------------------------
(* useCropSuggestions.ts, useWeatherAlerts.ts                              *)
(* The state of a hook is [weatherData, isLoading, error]; a load is       *)
(* [state, weather]: state is "pending" until getWeatherForecast settles,  *)
(* "suggesting" while useCropSuggestions awaits getCropSuggestions, then   *)
(* "fulfilled" or "rejected"; weather is what the weather service gave it. *)

\* loadWeather / loadSuggestions up to the first await
LoadStarted(hook) == [hook EXCEPT !.isLoading = TRUE, !.error = ""]

\* setWeatherData(weather)
WeatherArrived(hook, weather) == [hook EXCEPT !.weatherData = weather]

\* the finally block
LoadSettled(hook) == [hook EXCEPT !.isLoading = FALSE]

\* the try block of loadWeather from the await on, then the finally block
LoadFulfilled(hook, weather) == LoadSettled(WeatherArrived(hook, weather))

\* variant: a failed load drops the weather held
LoadRejectedClearing(hook, message) ==
    LoadSettled([hook EXCEPT !.error = message, !.weatherData = [@ EXCEPT !.present = FALSE]])

\* the catch block, then the finally block
LoadRejected(hook, message) == LoadSettled([hook EXCEPT !.error = message])

\* variant: weather still held is shown in spite of an error
useWeatherAlertsAllAlertsIgnoringError(loading, err, w) ==
    IF loading THEN <<>>
    ELSE IF ~w.present THEN generateFallbackAlerts
    ELSE generateAlertsFromWeatherAndCrops(w, NoResponse)

\* allAlerts of useWeatherAlerts (lines 21-25): the suggestions passed on are null
useWeatherAlertsAllAlerts(loading, err, w) ==
    IF loading THEN <<>>
    ELSE IF err # "" \/ ~w.present THEN generateFallbackAlerts
    ELSE generateAlertsFromWeatherAndCrops(w, NoResponse)

\* the loads a hook issues at most
MaxLoads == 3

RepositoryCalls == {"none", "getActiveCrops", "getCropsSummary"}

\* what the weather service may give a load: mild weather, or frost with
\* humidity, wind and heavy rain
HookWeather ==
    {Weather(25, 60, 3, <<Day(50), Day(30)>>),
     Weather(3, 95, 20, <<Day(300), Day(250), Day(10), Day(0)>>)}

HookSuggestions ==
    {Response(<<>>, "", <<>>),
     Response(SubSeq(SixSuggestions, 1, 2), "Irrigate early.", <<"Heat wave">>)}

----------------------------------------------------------------------------
(* Initial states: the arguments of one call                               *)

YieldIdle == crops = <<>> /\ predictions = <<>>

AreaIdle == farmAreaHint = Absent /\ maxReasonableArea = DefaultMaxReasonableArea /\ areaResult = <<>>

ServiceIdle == serviceFailed = FALSE /\ aiResponse = <<>>

SuggestIdle == weatherSummary = NoSummary

AlertIdle == isLoading = FALSE /\ error = "" /\ allAlerts = <<>> /\ topCount = 0 /\ topAlerts = <<>>

ScreenIdle == failingCall = "none" /\ cropMetrics = <<>> /\ updates = <<>> /\ loads = <<>>

ForecastIdle ==
    samples = <<>> /\ dailyForecast = <<>> /\ hostWest = FALSE /\ summaryResult = <<>> /\ secondRun = <<>>

InitYield ==
    /\ ScreenIdle
    /\ pc = "call" /\ status = "pending" /\ now = 1
    /\ op \in {"predictYield", "predictMultipleCropsYield"}
    /\ IF op = "predictYield"
       THEN crops \in {<<c>> : c \in CropDomain} /\ weatherData \in WeatherDomain
       ELSE crops \in SeqsUpTo(BatchCrops, MaxCrops) /\ weatherData \in BatchWeather
    /\ predictions = <<>>
    /\ suggestions = NoResponse
    /\ AreaIdle /\ ServiceIdle /\ SuggestIdle /\ AlertIdle /\ ForecastIdle

InitArea ==
    /\ ScreenIdle
    /\ pc = "call" /\ status = "pending" /\ now = 1
    /\ op = "detectCropAreaFromSatellite"
    /\ serviceFailed \in BOOLEAN
    /\ IF serviceFailed THEN aiResponse = <<>> ELSE aiResponse \in SeqsUpTo(AreaSegs, MaxSegs)
    /\ farmAreaHint \in AreaHints
    /\ maxReasonableArea \in AreaCeilings
    /\ areaResult = <<>>
    /\ weatherData = NoWeather /\ suggestions = NoResponse
    /\ YieldIdle /\ SuggestIdle /\ AlertIdle /\ ForecastIdle

InitSuggest ==
    /\ ScreenIdle
    /\ pc = "call" /\ status = "pending" /\ now \in Clock
    /\ op = "getCropSuggestions"
    /\ serviceFailed \in BOOLEAN
    /\ IF serviceFailed THEN aiResponse = <<>> ELSE aiResponse \in SeqsUpTo(SuggSegs, MaxSegs)
    /\ weatherSummary \in Summaries
    /\ weatherData = NoWeather /\ suggestions = NoResponse
    /\ YieldIdle /\ AreaIdle /\ AlertIdle /\ ForecastIdle

InitAlerts ==
    /\ ScreenIdle
    /\ pc = "call" /\ status = "pending" /\ now = 1
    /\ op \in {"generateAlertsFromWeatherAndCrops", "generateFallbackAlerts", "useAlerts"}
    /\ IF op = "generateFallbackAlerts"
       THEN weatherData = NoWeather /\ suggestions = NoResponse
       ELSE weatherData \in AlertWeather /\ suggestions \in AlertSuggestions
    /\ IF op = "useAlerts"
       THEN isLoading \in BOOLEAN /\ error \in {"", "Failed to fetch weather data"}
       ELSE isLoading = FALSE /\ error = ""
    /\ allAlerts = <<>> /\ topCount = 0 /\ topAlerts = <<>>
    /\ YieldIdle /\ AreaIdle /\ ServiceIdle /\ SuggestIdle /\ ForecastIdle

\* a direct call getTopAlerts(alerts, count): the list is given
InitTopAlerts ==
    /\ ScreenIdle
    /\ pc = "derived" /\ status = "pending" /\ now = 1
    /\ op = "getTopAlerts"
    /\ allAlerts \in SeqsUpTo(SampleAlerts, MaxAlerts)
    /\ weatherData = NoWeather /\ suggestions = NoResponse
    /\ isLoading = FALSE /\ error = "" /\ topCount = 0 /\ topAlerts = <<>>
    /\ YieldIdle /\ AreaIdle /\ ServiceIdle /\ SuggestIdle /\ ForecastIdle

\* await getWeatherForecast(location)
InitForecast ==
    /\ ScreenIdle
    /\ pc = "call" /\ status = "pending" /\ now = 1
    /\ op = "getWeatherForecast"
    /\ serviceFailed \in BOOLEAN
    /\ aiResponse = <<>>
    /\ IF serviceFailed THEN samples = <<>> ELSE samples \in SeqsUpTo(Samples, MaxSamples)
    /\ hostWest \in BOOLEAN
    /\ dailyForecast = <<>> /\ summaryResult = <<>> /\ secondRun = <<>>
    /\ weatherData = NoWeather /\ suggestions = NoResponse
    /\ YieldIdle /\ AreaIdle /\ SuggestIdle /\ AlertIdle

\* a direct call generateWeatherSummary(weatherData): the forecast is given
InitSummary ==
    /\ ScreenIdle
    /\ pc = "fetched" /\ status = "pending" /\ now = 1
    /\ op = "generateWeatherSummary"
    /\ dailyForecast \in DailyForecasts
    /\ hostWest \in BOOLEAN
    /\ samples = <<>> /\ summaryResult = <<>> /\ secondRun = <<>>
    /\ weatherData = NoWeather /\ suggestions = NoResponse
    /\ YieldIdle /\ AreaIdle /\ ServiceIdle /\ SuggestIdle /\ AlertIdle

\* one run of loadMetrics of MetricsScreen: crops are the active crops the
\* repository returns, weatherData what useWeatherData holds; isLoading and
\* error are the screen's state when the run starts
InitMetrics ==
    /\ pc = "call" /\ status = "pending" /\ now = 1
    /\ op = "loadMetrics"
    /\ failingCall \in RepositoryCalls
    /\ IF failingCall = "getActiveCrops" THEN crops = <<>> ELSE crops \in SeqsUpTo(BatchCrops, MaxCrops)
    /\ weatherData \in BatchWeather
    /\ isLoading \in BOOLEAN /\ error \in {"", "Failed to load metrics"}
    /\ predictions = <<>> /\ cropMetrics = <<>> /\ updates = <<>> /\ loads = <<>>
    /\ allAlerts = <<>> /\ topCount = 0 /\ topAlerts = <<>>
    /\ suggestions = NoResponse
    /\ AreaIdle /\ ServiceIdle /\ SuggestIdle /\ ForecastIdle

\* a hook after its first render: nothing loaded, no load issued yet;
\* useWeatherData is read through useWeatherAlerts
InitHook ==
    /\ pc = "hook" /\ status = "pending" /\ now = 1
    /\ op \in {"useWeatherData", "useCropSuggestions"}
    /\ weatherData = NoWeather /\ suggestions = NoResponse
    /\ isLoading = FALSE /\ error = ""
    /\ loads = <<>>
    /\ allAlerts = (IF op = "useWeatherData" THEN useWeatherAlertsAllAlerts(FALSE, "", NoWeather) ELSE <<>>)
    /\ topAlerts = getTopAlerts(allAlerts, 2)
    /\ topCount = 0
    /\ failingCall = "none" /\ cropMetrics = <<>> /\ updates = <<>>
    /\ YieldIdle /\ AreaIdle /\ ServiceIdle /\ SuggestIdle /\ ForecastIdle

Init ==
    \/ InitYield \/ InitArea \/ InitSuggest \/ InitAlerts \/ InitTopAlerts \/ InitForecast \/ InitSummary
    \/ InitMetrics \/ InitHook

----------------------------------------------------------------------------
(* The operations                                                          *)

\* await predictYield(crop, weatherData)
PredictYield ==
    /\ pc = "call" /\ op = "predictYield"
    /\ LET s == PredictYieldSettled(crops[1], weatherData)
       IN  /\ status' = s.status
           /\ predictions' = s.value
    /\ pc' = "done"
    /\ UNCHANGED <<screenVars, forecastVars, secondRun, op, now, crops, weatherData, serviceFailed, aiResponse, areaVars,
                   weatherSummary, suggestions, alertVars>>

\* await predictMultipleCropsYield(crops, weatherData)
PredictMultipleCropsYield ==
    /\ pc = "call" /\ op = "predictMultipleCropsYield"
    /\ predictions' = predictMultipleCropsYield(crops, weatherData)
    /\ status' = "fulfilled"
    /\ pc' = "done"
    /\ UNCHANGED <<screenVars, forecastVars, secondRun, op, now, crops, weatherData, serviceFailed, aiResponse, areaVars,
                   weatherSummary, suggestions, alertVars>>

\* await detectCropAreaFromSatellite(options): a failure of analyzeImage is
\* rethrown, otherwise the response text is parsed
DetectCropAreaFromSatellite ==
    /\ pc = "call" /\ op = "detectCropAreaFromSatellite"
    /\ IF serviceFailed
       THEN status' = "rejected" /\ pc' = "done" /\ areaResult' = areaResult
       ELSE /\ status' = "fulfilled" /\ pc' = "parsed"
            /\ areaResult' = parseAreaDetectionResponse(aiResponse, farmAreaHint)
    /\ UNCHANGED <<screenVars, forecastVars, secondRun, op, now, yieldVars, weatherData, serviceFailed, aiResponse, farmAreaHint,
                   maxReasonableArea, weatherSummary, suggestions, alertVars>>

\* validateAreaDetection(detectionResult, maxReasonableArea), CropsScreen.tsx line 116
ValidateAreaDetection ==
    /\ pc = "parsed" /\ op = "detectCropAreaFromSatellite"
    /\ areaResult' = validateAreaDetection(areaResult, maxReasonableArea)
    /\ pc' = "done"
    /\ UNCHANGED <<screenVars, forecastVars, secondRun, op, status, now, yieldVars, weatherData, serviceFailed, aiResponse, farmAreaHint,
                   maxReasonableArea, weatherSummary, suggestions, alertVars>>

\* parseAreaDetectionResponse(response, options.farmAreaHint) called once more
\* on the same response and hint
ParseAreaAgain ==
    /\ pc = "parsed" /\ op = "detectCropAreaFromSatellite"
    /\ secondRun' = parseAreaDetectionResponse(aiResponse, farmAreaHint)
    /\ pc' = "reparsed"
    /\ UNCHANGED <<screenVars, forecastVars, op, status, now, yieldVars, weatherData, serviceFailed, aiResponse,
                   areaVars, weatherSummary, suggestions, alertVars>>

\* await getCropSuggestions(weatherSummary)
GetCropSuggestions ==
    /\ pc = "call" /\ op = "getCropSuggestions"
    /\ suggestions' = [present |-> TRUE,
                       v |-> getCropSuggestions(weatherSummary,
                                                [failed |-> serviceFailed, text |-> aiResponse], now)]
    /\ status' = "fulfilled"
    /\ pc' = "done"
    /\ UNCHANGED <<screenVars, forecastVars, secondRun, op, now, yieldVars, weatherData, serviceFailed, aiResponse, areaVars,
                   weatherSummary, alertVars>>

\* parseAIResponse(response, weatherSummary) called once more on the same
\* response and summary, when the clock has not gone back
ParseSuggestionsAgain ==
    /\ pc = "done" /\ op = "getCropSuggestions" /\ ~serviceFailed
    /\ \E later \in {t \in Clock : t >= now} :
          /\ now' = later
          /\ secondRun' = parseAIResponse(aiResponse, weatherSummary, later)
    /\ pc' = "reparsed"
    /\ UNCHANGED <<screenVars, forecastVars, op, status, yieldVars, weatherData, serviceFailed, aiResponse,
                   areaVars, weatherSummary, suggestions, alertVars>>

\* generateAlertsFromWeatherAndCrops(weatherData, suggestions)
GenerateAlertsFromWeatherAndCrops ==
    /\ pc = "call" /\ op = "generateAlertsFromWeatherAndCrops"
    /\ allAlerts' = generateAlertsFromWeatherAndCrops(weatherData, suggestions)
    /\ status' = "fulfilled"
    /\ pc' = "derived"
    /\ UNCHANGED <<screenVars, forecastVars, secondRun, op, now, yieldVars, weatherData, serviceFailed, aiResponse, areaVars,
                   weatherSummary, suggestions, isLoading, error, topCount, topAlerts>>

\* generateFallbackAlerts()
GenerateFallbackAlerts ==
    /\ pc = "call" /\ op = "generateFallbackAlerts"
    /\ allAlerts' = generateFallbackAlerts
    /\ status' = "fulfilled"
    /\ pc' = "derived"
    /\ UNCHANGED <<screenVars, forecastVars, secondRun, op, now, yieldVars, weatherData, serviceFailed, aiResponse, areaVars,
                   weatherSummary, suggestions, isLoading, error, topCount, topAlerts>>

\* the allAlerts memo of useAlerts
UseAlerts ==
    /\ pc = "call" /\ op = "useAlerts"
    /\ allAlerts' = useAlertsAllAlerts(isLoading, error, weatherData, suggestions)
    /\ status' = "fulfilled"
    /\ pc' = "derived"
    /\ UNCHANGED <<screenVars, forecastVars, secondRun, op, now, yieldVars, weatherData, serviceFailed, aiResponse, areaVars,
                   weatherSummary, suggestions, isLoading, error, topCount, topAlerts>>

\* getTopAlerts(allAlerts, count)
GetTopAlerts ==
    /\ pc = "derived"
    /\ \E count \in 0..MaxTopCount :
          /\ topCount' = count
          /\ topAlerts' = getTopAlerts(allAlerts, count)
    /\ pc' = "done"
    /\ UNCHANGED <<screenVars, forecastVars, secondRun, op, status, now, yieldVars, weatherData, serviceFailed, aiResponse, areaVars,
                   weatherSummary, suggestions, isLoading, error, allAlerts>>

\* await getWeatherForecast(location): processForecastData runs on data.list
\* (line 68) before data.list[0] is read
GetWeatherForecast ==
    /\ pc = "call" /\ op = "getWeatherForecast"
    /\ dailyForecast' = IF serviceFailed THEN <<>> ELSE processForecastData(samples)
    /\ IF GetWeatherForecastThrows(serviceFailed, samples)
       THEN status' = "rejected" /\ pc' = "done"
       ELSE status' = "fulfilled" /\ pc' = "fetched"
    /\ UNCHANGED <<screenVars, samples, hostWest, summaryResult, secondRun, op, now, yieldVars, weatherData,
                   serviceFailed, aiResponse, areaVars, weatherSummary, suggestions, alertVars>>

\* generateWeatherSummary(weather), useCropSuggestions line 50
GenerateWeatherSummary ==
    /\ pc = "fetched"
    /\ summaryResult' = generateWeatherSummary(dailyForecast, hostWest)
    /\ pc' = "done"
    /\ UNCHANGED <<screenVars, samples, dailyForecast, hostWest, secondRun, op, status, now, yieldVars, weatherData,
                   serviceFailed, aiResponse, areaVars, weatherSummary, suggestions, alertVars>>

\* what neither MetricsScreen nor the hooks read or write
pipelineVars ==
    <<now, serviceFailed, aiResponse, areaVars, weatherSummary, forecastVars, secondRun, topCount>>

\* loadMetrics up to its first await: setIsLoading(true); setError(null)
LoadMetrics ==
    /\ pc = "call" /\ op = "loadMetrics"
    /\ isLoading' = TRUE /\ error' = ""
    /\ pc' = "getActiveCrops"
    /\ UNCHANGED <<pipelineVars, screenVars, op, status, yieldVars, weatherData, suggestions,
                   allAlerts, topAlerts>>

\* await getActiveCrops(...): it throws, or returns no crop, or returns some
GetActiveCrops ==
    /\ pc = "getActiveCrops"
    /\ IF failingCall = "getActiveCrops"
       THEN error' = "Failed to fetch active crops" /\ isLoading' = FALSE
            /\ status' = "fulfilled" /\ pc' = "done"
       ELSE IF Len(crops) = 0
       THEN error' = error /\ isLoading' = FALSE /\ status' = "fulfilled" /\ pc' = "done"
       ELSE error' = error /\ isLoading' = isLoading /\ status' = status /\ pc' = "getCropsSummary"
    /\ UNCHANGED <<pipelineVars, screenVars, op, yieldVars, weatherData, suggestions,
                   allAlerts, topAlerts>>

\* await getCropsSummary(farmerName)
GetCropsSummary ==
    /\ pc = "getCropsSummary"
    /\ IF failingCall = "getCropsSummary"
       THEN error' = "Failed to fetch crops summary" /\ isLoading' = FALSE
            /\ status' = "fulfilled" /\ pc' = "done"
       ELSE error' = error /\ isLoading' = isLoading /\ status' = status /\ pc' = "predict"
    /\ UNCHANGED <<pipelineVars, screenVars, op, yieldVars, weatherData, suggestions,
                   allAlerts, topAlerts>>

\* await predictMultipleCropsYield(activeCrops, weatherData); setCropMetrics(metricsData)
SetCropMetrics ==
    /\ pc = "predict"
    /\ predictions' = predictMultipleCropsYield(crops, weatherData)
    /\ cropMetrics' = metricsData(crops, predictions')
    /\ pc' = "update"
    /\ UNCHANGED <<pipelineVars, failingCall, updates, loads, op, status, crops, weatherData,
                   suggestions, isLoading, error, allAlerts, topAlerts>>

\* one turn of the loop of lines 72-87: the update of the next entry succeeds or throws
UpdateCropYieldPrediction ==
    /\ pc = "update" /\ Len(updates) < Len(cropMetrics)
    /\ \E failed \in BOOLEAN :
          LET after == AfterUpdate(failed, error)
          IN  /\ updates' = Append(updates, UpdateCall(cropMetrics[Len(updates) + 1], weatherData, failed))
              /\ error' = after.error
              /\ IF after.proceeds
                 THEN pc' = pc /\ isLoading' = isLoading /\ status' = status
                 ELSE pc' = "done" /\ isLoading' = FALSE /\ status' = "fulfilled"
    /\ UNCHANGED <<pipelineVars, failingCall, cropMetrics, loads, op, yieldVars, weatherData,
                   suggestions, allAlerts, topAlerts>>

\* the loop is over: the finally block
LoadMetricsFinally ==
    /\ pc = "update" /\ Len(updates) = Len(cropMetrics)
    /\ isLoading' = FALSE
    /\ status' = "fulfilled"
    /\ pc' = "done"
    /\ UNCHANGED <<pipelineVars, screenVars, op, yieldVars, weatherData, suggestions, error,
                   allAlerts, topAlerts>>

\* the state of the hook
Hook == [weatherData |-> weatherData, isLoading |-> isLoading, error |-> error]

\* the state setters take effect and the hook renders: useWeatherAlerts
\* recomputes its two memos from the new state
SetHook(hook) ==
    /\ weatherData' = hook.weatherData /\ isLoading' = hook.isLoading /\ error' = hook.error
    /\ IF op = "useWeatherData"
       THEN /\ allAlerts' = useWeatherAlertsAllAlerts(hook.isLoading, hook.error, hook.weatherData)
            /\ topAlerts' = getTopAlerts(allAlerts', 2)
       ELSE UNCHANGED <<allAlerts, topAlerts>>

\* loadWeather() / loadSuggestions() is called: by the effect on mount or on a
\* change of location, by refresh, or by the auto-refresh timer
LoadWeather ==
    /\ pc = "hook" /\ Len(loads) < MaxLoads
    /\ SetHook(LoadStarted(Hook))
    /\ loads' = Append(loads, [state |-> "pending", weather |-> NoWeather])
    /\ UNCHANGED <<pipelineVars, failingCall, cropMetrics, updates, pc, op, status, yieldVars, suggestions>>

\* the weather request of a load resolves
GetWeatherResolves ==
    /\ pc = "hook"
    /\ \E k \in 1..Len(loads), weather \in HookWeather :
          /\ loads[k].state = "pending"
          /\ IF op = "useWeatherData"
             THEN /\ SetHook(LoadFulfilled(Hook, weather))
                  /\ loads' = [loads EXCEPT ![k] = [state |-> "fulfilled", weather |-> weather]]
             ELSE /\ SetHook(WeatherArrived(Hook, weather))
                  /\ loads' = [loads EXCEPT ![k] = [state |-> "suggesting", weather |-> weather]]
    /\ UNCHANGED <<pipelineVars, failingCall, cropMetrics, updates, pc, op, status, yieldVars, suggestions>>

\* the weather request of a load rejects
GetWeatherRejects ==
    /\ pc = "hook"
    /\ \E k \in 1..Len(loads) :
          /\ loads[k].state = "pending"
          /\ SetHook(LoadRejected(Hook, "Failed to fetch weather data. Please try again later."))
          /\ loads' = [loads EXCEPT ![k].state = "rejected"]
    /\ UNCHANGED <<pipelineVars, failingCall, cropMetrics, updates, pc, op, status, yieldVars, suggestions>>

\* useCropSuggestions: getCropSuggestions resolves (it never rejects);
\* setSuggestions, then the finally block
GetSuggestionsResolves ==
    /\ pc = "hook" /\ op = "useCropSuggestions"
    /\ \E k \in 1..Len(loads), resp \in HookSuggestions :
          /\ loads[k].state = "suggesting"
          /\ suggestions' = resp
          /\ SetHook(LoadSettled(Hook))
          /\ loads' = [loads EXCEPT ![k].state = "fulfilled"]
    /\ UNCHANGED <<pipelineVars, failingCall, cropMetrics, updates, pc, op, status, yieldVars>>

\* clearError()
ClearError ==
    /\ pc = "hook" /\ error # ""
    /\ SetHook([Hook EXCEPT !.error = ""])
    /\ UNCHANGED <<pipelineVars, screenVars, pc, op, status, yieldVars, suggestions>>

NextYield == PredictYield \/ PredictMultipleCropsYield

NextArea == DetectCropAreaFromSatellite \/ ValidateAreaDetection \/ ParseAreaAgain

NextSuggest == GetCropSuggestions \/ ParseSuggestionsAgain

NextAlerts == GenerateAlertsFromWeatherAndCrops \/ GenerateFallbackAlerts \/ UseAlerts \/ GetTopAlerts

NextForecast == GetWeatherForecast \/ GenerateWeatherSummary

NextMetrics ==
    \/ LoadMetrics \/ GetActiveCrops \/ GetCropsSummary \/ SetCropMetrics
    \/ UpdateCropYieldPrediction \/ LoadMetricsFinally

NextHook == LoadWeather \/ GetWeatherResolves \/ GetWeatherRejects \/ GetSuggestionsResolves \/ ClearError

Next == NextYield \/ NextArea \/ NextSuggest \/ NextAlerts \/ NextForecast \/ NextMetrics \/ NextHook

SpecYield == InitYield /\ [][NextYield]_vars

SpecArea == InitArea /\ [][NextArea]_vars

SpecSuggest == InitSuggest /\ [][NextSuggest]_vars

SpecAlerts == (InitAlerts \/ InitTopAlerts) /\ [][NextAlerts]_vars

SpecForecast == (InitForecast \/ InitSummary) /\ [][NextForecast]_vars

SpecMetrics == InitMetrics /\ [][NextMetrics]_vars

SpecHook == InitHook /\ [][NextHook]_vars

Spec == Init /\ [][Next]_vars

----------------------------------------------------------------------------
(* Properties of the yield model                                           *)

BatchDone == pc = "done" /\ op = "predictMultipleCropsYield"

\* indices of the crops whose prediction succeeds
Succeeding == {i \in 1..Len(crops) : crops[i].crop_type # NULL}

\* the index in crops of the k-th succeeding crop
NthSucceeding(k) ==
    CHOOSE i \in Succeeding : Cardinality({j \in Succeeding : j <= i}) = k

\* C1: predictMultipleCropsYield never fails, whatever subset of the per-crop
\* predictions fails; it returns exactly one prediction per succeeding crop,
\* none for a failing crop, in the input order of the succeeding crops.
C1_BatchKeepsSuccessesInOrder ==
    BatchDone =>
        /\ status = "fulfilled"
        /\ Len(predictions) = Cardinality(Succeeding)
        /\ \A k \in 1..Len(predictions) :
              /\ predictions[k].assumedCrop = crops[NthSucceeding(k)].crop_type
              /\ predictions[k] = PredictYieldValue(crops[NthSucceeding(k)], weatherData)

\* three crops, the middle one fails, two predictions come back
C1_Witness ==
    /\ BatchDone
    /\ Len(crops) = 3
    /\ Succeeding = {1, 3}
    /\ crops[1].crop_type # crops[3].crop_type
    /\ Len(predictions) = 2

PredictDone == pc = "done" /\ op = "predictYield" /\ status = "fulfilled"

\* ten times baseYield = area x yieldPerArea of the crop that was predicted
BaseYield10 == AreaSqmOf(crops[1]) * BaseYieldData(ToLowerCase(crops[1].crop_type)).yieldPerSqm10

\* C2: for every crop accepted by predictYield (area zero, negative or absent,
\* investment negative or absent, with or without weather) predictedYield >= 0,
\* predictedRevenue >= 0 and predictedYield / baseYield is in [0.3, 2.0] up to
\* the rounding of predictedYield to a whole number (half a unit).
C2_YieldNonNegativeAndBounded ==
    PredictDone =>
        LET p == predictions[1]
        IN  /\ p.predictedYieldKg >= 0
            /\ p.predictedRevenue >= 0
            /\ 100 * Abs(p.predictedYieldKg) >= 3 * Abs(BaseYield10) - 50
            /\ 10 * Abs(p.predictedYieldKg) <= 2 * Abs(BaseYield10) + 5

----------------------------------------------------------------------------
(* Properties of the confidence and area values                            *)

AreaParsed == op = "detectCropAreaFromSatellite" /\ status = "fulfilled" /\ pc \in {"parsed", "done"}

AreaValidated == op = "detectCropAreaFromSatellite" /\ status = "fulfilled" /\ pc = "done"

YieldDone == op \in {"predictYield", "predictMultipleCropsYield"} /\ pc = "done"

\* C3: every confidence the area parser produces (JSON path, regex fallback
\* path, and after validateAreaDetection) and every confidence score of the
\* yield model lies in [0, 1] (0..100 hundredths).
C3_ConfidenceInUnitInterval ==
    /\ AreaParsed => areaResult.confidence >= 0 /\ areaResult.confidence <= 100
    /\ YieldDone => \A k \in 1..Len(predictions) :
                        predictions[k].confidenceScore >= 0 /\ predictions[k].confidenceScore <= 100

\* a decoded confidence above 1 came out as 1
C3_Witness ==
    /\ AreaParsed /\ pc = "parsed"
    /\ ExtractJson(aiResponse).structured
    /\ ExtractJson(aiResponse).val.confidence.kind = "num"
    /\ ExtractJson(aiResponse).val.confidence.n > 100
    /\ areaResult.confidence = 100

\* C4: every result that the parser hands to validateAreaDetection comes back
\* with 0 <= detectedAreaSqm <= ceiling, for every text and every hint
\* (zero and negative hints included).
C4_ValidatedAreaWithinCeiling ==
    AreaValidated =>
        areaResult.detectedAreaSqm >= 0 /\ areaResult.detectedAreaSqm <= 10 * maxReasonableArea

----------------------------------------------------------------------------
(* Properties of the alert engine                                          *)

Derived(name) == op = name /\ pc \in {"derived", "done"}

NoData == ~weatherData.present /\ ~suggestions.present

\* the fixed pair of fallback alerts, as the claim describes it
IsFallbackPair(alerts) ==
    /\ Len(alerts) = 2
    /\ alerts[1].title = "Weather Data Unavailable"
    /\ alerts[2].title = "Monitor Weather Conditions"
    /\ \A i \in 1..2 : alerts[i].severity = "normal"

\* C5 as stated: generateAlertsFromWeatherAndCrops(null, null) returns exactly
\* the two fixed fallback alerts, both of severity normal, never an empty list.
C5_DeriveReturnsFallbackPair ==
    (Derived("generateAlertsFromWeatherAndCrops") /\ NoData) => IsFallbackPair(allAlerts)

\* C5 as amended: generateAlertsFromWeatherAndCrops(null, null) returns the
\* empty list; the two fixed fallback alerts, both normal, are what
\* generateFallbackAlerts returns, and the useAlerts hook returns them instead
\* of deriving whenever it is not loading and has neither weather nor suggestions.
C5_FallbackPairComesFromHook ==
    /\ (Derived("generateAlertsFromWeatherAndCrops") /\ NoData) => allAlerts = <<>>
    /\ Derived("generateFallbackAlerts") => IsFallbackPair(allAlerts)
    /\ (Derived("useAlerts") /\ ~isLoading /\ NoData) => IsFallbackPair(allAlerts)

\* the hook, idle, without error and without any data, shows the pair
C5_Witness ==
    /\ Derived("useAlerts") /\ ~isLoading /\ error = "" /\ NoData
    /\ IsFallbackPair(allAlerts)

SeverityRank(severity) ==
    IF severity = "urgent" THEN 0 ELSE IF severity = "warning" THEN 1 ELSE 2

OfSeverity(alerts, severity) == SelectSeq(alerts, LAMBDA a : a.severity = severity)

\* C6: the list generateAlertsFromWeatherAndCrops returns is ordered by
\* severity rank urgent < warning < normal, and alerts of equal severity keep
\* their construction order (weather alerts before suggestion alerts, each in
\* generation order).
C6_SortedBySeverityStable ==
    Derived("generateAlertsFromWeatherAndCrops") =>
        /\ \A i, j \in 1..Len(allAlerts) :
              i < j => SeverityRank(allAlerts[i].severity) <= SeverityRank(allAlerts[j].severity)
        /\ \A severity \in {"urgent", "warning", "normal"} :
              OfSeverity(allAlerts, severity)
                = OfSeverity(ConstructedAlerts(weatherData, suggestions), severity)

\* the sort moved something: a normal weather alert was constructed before the
\* warnings of the suggestions, an urgent alert after a warning one, and the
\* weather warning still precedes the suggestion warning
C6_Witness ==
    /\ Derived("generateAlertsFromWeatherAndCrops")
    /\ allAlerts # ConstructedAlerts(weatherData, suggestions)
    /\ Len(OfSeverity(allAlerts, "urgent")) = 1
    /\ \E i, j \in 1..Len(allAlerts) :
          /\ i < j
          /\ allAlerts[i].id = "wind-high" /\ allAlerts[j].id = "risk-0"
    /\ \E i \in 1..Len(allAlerts) : allAlerts[i].id = "rain-low"

IsHigh(alert) == alert.severity \in {"urgent", "warning"}

HighIndices(alerts) == {i \in 1..Len(alerts) : IsHigh(alerts[i])}

\* the index in alerts of its k-th urgent/warning alert
NthHigh(alerts, k) ==
    CHOOSE i \in HighIndices(alerts) : Cardinality({j \in HighIndices(alerts) : j <= i}) = k

\* C7: getTopAlerts(alerts, n) returns the first n alerts of the input whose
\* severity is urgent or warning, in the input's order: no normal alert, length
\* min(n, number of urgent/warning alerts); the input list stays as it was.
C7_TopAlertsFirstHigh ==
    [][pc = "derived" =>
          /\ allAlerts' = allAlerts
          /\ Len(topAlerts') = Min(topCount', Cardinality(HighIndices(allAlerts)))
          /\ \A k \in 1..Len(topAlerts') :
                /\ topAlerts'[k] = allAlerts[NthHigh(allAlerts, k)]
                /\ topAlerts'[k].severity # "normal"]_vars

\* two of three urgent/warning alerts taken, past a normal one that comes first
C7_Witness ==
    /\ pc = "done" /\ op = "getTopAlerts"
    /\ topCount = 2
    /\ Len(allAlerts) = 3
    /\ allAlerts[1].severity = "normal"
    /\ allAlerts[2].severity = "warning" /\ allAlerts[3].severity = "urgent"
    /\ topAlerts = <<allAlerts[2], allAlerts[3]>>

----------------------------------------------------------------------------
(* Properties of the suggestion parser                                     *)

Parsed == op = "getCropSuggestions" /\ pc = "done" /\ ~serviceFailed

\* C8: for every response text the CropSuggestionsResponse the parser returns
\* has between 0 and 5 suggestions and a riskFactors that is not null.
C8_AtMostFiveSuggestions ==
    Parsed =>
        /\ Len(suggestions.v.suggestions.items) <= 5
        /\ suggestions.v.riskFactors.kind \notin {"missing", "null"}

\* a response whose suggestions and riskFactors are lists and whose advice is a text
WellFormed(resp) ==
    /\ resp.suggestions.kind = "list"
    /\ resp.riskFactors.kind = "list"
    /\ resp.generalAdvice # ""
    /\ resp.location # ""

Names(suggs) == [i \in 1..Len(suggs) |-> suggs[i].cropName]

\* the rule-based suggestions, by crop name, for a weather summary
HeuristicNames(summary) ==
    LET t == summary.nextTwoMonths.averageTemperature
        r == summary.nextTwoMonths.averageRainfall
    IN  (IF t >= 200 /\ t <= 300 THEN (IF r > 500 THEN <<"Rice">> ELSE <<"Wheat">>) ELSE <<>>)
     \o (IF t >= 150 /\ t <= 250 THEN <<"Tomatoes">> ELSE <<>>)

\* some vocabulary crop name occurs in the text
MentionsCrop(text) == \E k \in 1..Len(CommonCrops) : TextIncludes(text, CommonCrops[k])

\* C9: the suggestion parser never raises and always returns a well-formed
\* CropSuggestionsResponse, taking exactly one of three tiers in order:
\* structured when a JSON value decodes, else keyword when a vocabulary crop
\* name occurs in the text, else rule-based from the weather summary; a decode
\* failure falls through to the later tiers.
C9_NeverRaisesThreeTiers ==
    Parsed =>
        /\ status = "fulfilled"
        /\ WellFormed(suggestions.v)
        /\ ~ExtractJson(aiResponse).structured =>
              IF MentionsCrop(aiResponse)
              THEN /\ Len(suggestions.v.suggestions.items) \in 1..3
                   /\ \A i \in 1..Len(suggestions.v.suggestions.items) :
                         suggestions.v.suggestions.items[i].plantingTimeframe = "Next 2-4 weeks"
              ELSE Names(suggestions.v.suggestions.items) = HeuristicNames(weatherSummary)

\* C10: when the generative text service call fails, getCropSuggestions still
\* resolves, with the rule-based suggestions for the weather summary, a
\* non-empty generalAdvice and a non-empty riskFactors list.
C10_ServiceFailureFallsBack ==
    (op = "getCropSuggestions" /\ pc = "done" /\ serviceFailed) =>
        /\ status = "fulfilled"
        /\ suggestions.present
        /\ suggestions.v.suggestions.kind = "list"
        /\ Names(suggestions.v.suggestions.items) = HeuristicNames(weatherSummary)
        /\ suggestions.v.generalAdvice # ""
        /\ suggestions.v.riskFactors.kind = "list"
        /\ Len(suggestions.v.riskFactors.items) > 0
        /\ suggestions.v.location = weatherSummary.location

\* the service failed in warm weather at a rainfall of exactly 50: wheat and tomatoes
C10_Witness ==
    /\ op = "getCropSuggestions" /\ pc = "done" /\ serviceFailed
    /\ weatherSummary.nextTwoMonths.averageTemperature = 250
    /\ weatherSummary.nextTwoMonths.averageRainfall = 500
    /\ Names(suggestions.v.suggestions.items) = <<"Wheat", "Tomatoes">>

----------------------------------------------------------------------------
(* Properties of the weather aggregator                                    *)

Aggregated == op = "getWeatherForecast" /\ pc # "call" /\ ~serviceFailed

Summarised == pc = "done" /\ summaryResult # <<>>

\* the calendar dates present in data.list
SampleDates == {samples[i].dt \div SecondsPerDay : i \in 1..Len(samples)}

\* C11: for every sequence of samples, in any order, processForecastData
\* returns exactly one DailyForecast per distinct calendar date of the input,
\* and every DailyForecast has maxTemp >= minTemp.
C11_OneForecastPerDate ==
    Aggregated =>
        /\ Len(dailyForecast) = Cardinality(SampleDates)
        /\ {dailyForecast[k].date : k \in 1..Len(dailyForecast)} = SampleDates
        /\ \A j, k \in 1..Len(dailyForecast) : dailyForecast[j].date = dailyForecast[k].date => j = k
        /\ \A k \in 1..Len(dailyForecast) : dailyForecast[k].maxTemp >= dailyForecast[k].minTemp

C11_Witness ==
    /\ Aggregated
    /\ Len(samples) = 3
    /\ Cardinality(SampleDates) = 2
    /\ samples[1].dt \div SecondsPerDay = samples[3].dt \div SecondsPerDay
    /\ samples[1].dt > samples[3].dt
    /\ Len(dailyForecast) = 2

\* the windows the planting-period rule names: average midpoint temperature
\* in [15, 35], total rainfall in (1, 10]
ClaimedPeriod(period) ==
    /\ MidpointSum2(period) >= 90
    /\ MidpointSum2(period) <= 210
    /\ SumPrecip(period) > 10
    /\ SumPrecip(period) <= 100

ClaimedStarts ==
    SelectSeq([i \in 1..Max(0, Len(dailyForecast) - 2) |-> i],
              LAMBDA i : ClaimedPeriod(SubSeq(dailyForecast, i, i + 2)))

\* C12: bestPlantingPeriods consists of exactly the contiguous 3-day windows
\* whose average midpoint temperature is in [15, 35] and whose total rainfall
\* is in (1, 10] (exactly 10 qualifies, exactly 1 does not), in chronological
\* order, truncated to the first 3; fewer than 3 days yield none.
C12_BestPlantingPeriods ==
    Summarised =>
        LET periods == summaryResult.nextTwoMonths.bestPlantingPeriods
            wanted == SubSeq(ClaimedStarts, 1, Min(3, Len(ClaimedStarts)))
        IN  /\ Len(periods) = Len(wanted)
            /\ \A k \in 1..Len(wanted) :
                  periods[k] = PeriodLabel(SubSeq(dailyForecast, wanted[k], wanted[k] + 2), hostWest)
            /\ Len(dailyForecast) < 3 => periods = <<>>

\* C13: generateWeatherSummary on zero days does not fail and returns
\* averageRainfall, averageTemperature, averageHumidity, rainyDays and dryDays
\* all 0 and no planting period; with 1 or 2 days the statistics are computed
\* over those days and there is no planting period.
C13_ShortForecasts ==
    Summarised =>
        LET m == summaryResult.nextTwoMonths
        IN  /\ Len(dailyForecast) = 0 =>
                  /\ m.averageRainfall = Finite(0)
                  /\ m.averageTemperature = Finite(0)
                  /\ m.averageHumidity = Finite(0)
                  /\ m.rainyDays = 0 /\ m.dryDays = 0
                  /\ m.bestPlantingPeriods = <<>>
            /\ Len(dailyForecast) \in {1, 2} =>
                  /\ ~m.averageRainfall.nan /\ ~m.averageTemperature.nan /\ ~m.averageHumidity.nan
                  /\ m.averageHumidity.n = RoundDiv(SumHumidity(dailyForecast), Len(dailyForecast))
                  /\ m.rainyDays + m.dryDays = Len(dailyForecast)
                  /\ m.bestPlantingPeriods = <<>>

\* C17: averageRainfall is the total precipitation divided by the number of
\* days, rounded to 1 decimal; averageTemperature is the mean of the days'
\* midpoints (max+min)/2; rainyDays counts the days with precipitation > 0.5;
\* rainyDays + dryDays is the number of days.
C17_AverageRainfallIsPerDayMean ==
    (Summarised /\ Len(dailyForecast) > 0) =>
        LET m == summaryResult.nextTwoMonths
            days == Len(dailyForecast)
        IN  /\ m.averageRainfall = Finite(RoundDiv(SumPrecip(dailyForecast), days))
            /\ m.averageTemperature = Finite(RoundDiv(10 * MidpointSum2(dailyForecast), 2 * days))
            /\ m.rainyDays = Cardinality({i \in 1..days : dailyForecast[i].precipitation > 5})
            /\ m.rainyDays + m.dryDays = days

\* the samples of data.list that fall on a date, in the order of the list
SamplesOf(date) == SelectSeq(samples, LAMBDA item : item.dt \div SecondsPerDay = date)

\* C18: a DailyForecast's humidity is the mean of the humidity of all the
\* day's samples, its wind speed the mean of their wind speeds, its
\* precipitation the sum of their precipitation, whichever sample comes first.
C18_DailyMeansAndSums ==
    Aggregated =>
        \A k \in 1..Len(dailyForecast) :
            LET own == SamplesOf(dailyForecast[k].date)
                n == Len(own)
            IN  /\ dailyForecast[k].humidity = RoundDiv(SumSeq([i \in 1..n |-> own[i].humidity]), n)
                /\ dailyForecast[k].windSpeed = RoundDiv(SumSeq([i \in 1..n |-> own[i].speed]), 10 * n)
                /\ dailyForecast[k].precipitation =
                      RoundDiv(SumSeq([i \in 1..n |-> IF own[i].rain3h.present THEN own[i].rain3h.v ELSE 0]), 10)

----------------------------------------------------------------------------
(* Properties of the parsers                                               *)

Reparsed == pc = "reparsed"

\* C14: running a parser twice on the same AI text with the same hint (area
\* parser) or the same weather summary (suggestion parser) yields identical
\* outputs in every field; the clock has no part in the result.
C14_ParseTwiceIdentical ==
    Reparsed =>
        /\ op = "detectCropAreaFromSatellite" => secondRun = areaResult
        /\ op = "getCropSuggestions" => secondRun = suggestions.v

----------------------------------------------------------------------------
(* Properties of the weather alerts                                        *)

\* the alerts of the derived list that carry an id
AlertsWithId(id) == SelectSeq(allAlerts, LAMBDA alert : alert.id = id)

\* exactly one alert with this id, title and severity when fires holds, none otherwise
FiresExactlyWhen(fires, id, title, severity) ==
    IF fires
    THEN /\ Len(AlertsWithId(id)) = 1
         /\ AlertsWithId(id)[1].title = title
         /\ AlertsWithId(id)[1].severity = severity
    ELSE AlertsWithId(id) = <<>>

WeatherDerived == Derived("generateAlertsFromWeatherAndCrops") /\ weatherData.present

\* precipitation of the first three forecast days, in tenths of mm
NextThreeDaysRain ==
    LET f == weatherData.v.forecast
    IN  SumSeq([i \in 1..Min(3, Len(f)) |-> f[i].precipitation])

CurrentAlertsAtThresholds ==
    /\ FiresExactlyWhen(weatherData.v.current.temperature > 35,
                        "temp-high", "High Temperature Alert", "warning")
    /\ FiresExactlyWhen(weatherData.v.current.temperature < 5,
                        "temp-low", "Frost Warning", "urgent")
    /\ FiresExactlyWhen(weatherData.v.current.humidity > 90,
                        "humidity-high", "High Humidity Warning", "warning")
    /\ FiresExactlyWhen(weatherData.v.current.windSpeed > 15,
                        "wind-high", "Strong Wind Warning", "warning")

\* C15 as stated: each weather alert fires exactly when its threshold is
\* crossed (temperature > 35, temperature < 5, humidity > 90, wind > 15, sum
\* of the first three forecast days' precipitation > 50, that sum < 2); Heavy
\* Rainfall and Dry Period never appear together; a value at a threshold
\* fires nothing.
C15_AlertsFireExactlyAtThresholds ==
    WeatherDerived =>
        /\ CurrentAlertsAtThresholds
        /\ FiresExactlyWhen(NextThreeDaysRain > 500, "rain-heavy", "Heavy Rainfall Expected", "warning")
        /\ FiresExactlyWhen(NextThreeDaysRain < 20, "rain-low", "Dry Period Ahead", "normal")
        /\ ~(AlertsWithId("rain-heavy") # <<>> /\ AlertsWithId("rain-low") # <<>>)

\* C15 amended: as stated, with the two rainfall alerts fired only for a
\* forecast of at least one day; an empty forecast fires neither.
C15_RainAlertsNeedForecastDays ==
    WeatherDerived =>
        /\ CurrentAlertsAtThresholds
        /\ FiresExactlyWhen(Len(weatherData.v.forecast) > 0 /\ NextThreeDaysRain > 500,
                            "rain-heavy", "Heavy Rainfall Expected", "warning")
        /\ FiresExactlyWhen(Len(weatherData.v.forecast) > 0 /\ NextThreeDaysRain < 20,
                            "rain-low", "Dry Period Ahead", "normal")
        /\ ~(AlertsWithId("rain-heavy") # <<>> /\ AlertsWithId("rain-low") # <<>>)

C15_Witness ==
    /\ WeatherDerived
    /\ weatherData.v.current.temperature = 35
    /\ weatherData.v.current.humidity = 95
    /\ weatherData.v.current.windSpeed = 15
    /\ Len(weatherData.v.forecast) = 4 /\ NextThreeDaysRain = 500
    /\ AlertsWithId("humidity-high") # <<>>
    /\ AlertsWithId("temp-high") = <<>> /\ AlertsWithId("wind-high") = <<>>
    /\ AlertsWithId("rain-heavy") = <<>> /\ AlertsWithId("rain-low") = <<>>

----------------------------------------------------------------------------
(* Properties of the area parser's fallback path and of the validation     *)

CappedNote == " (Area capped at maximum reasonable size)"

SmallNote == " (Very small area detected, low confidence)"

\* C16: validateAreaDetection: an input area above the ceiling comes back as
\* the ceiling, with confidence min(confidence, 0.5) and a note appended to
\* the description; an area (as clamped) below 10 gets confidence
\* min(confidence, 0.3) and a note appended; for 10 <= area <= ceiling the
\* area, the confidence and the description come back unchanged.
C16_ValidateClampsAndNotes ==
    [][(pc = "parsed" /\ pc' = "done") =>
        LET over == areaResult.detectedAreaSqm > 10 * maxReasonableArea
            area == IF over THEN 10 * maxReasonableArea ELSE areaResult.detectedAreaSqm
            small == area < 100
            confidence == IF over THEN Min(areaResult.confidence, 50) ELSE areaResult.confidence
        IN  /\ areaResult'.detectedAreaSqm = area
            /\ areaResult'.confidence = IF small THEN Min(confidence, 30) ELSE confidence
            /\ areaResult'.description =
                  areaResult.description \o (IF over THEN <<CappedNote>> ELSE <<>>)
                                         \o (IF small THEN <<SmallNote>> ELSE <<>>)
            /\ (~over /\ ~small) => areaResult' = areaResult]_vars

C16_Witness ==
    /\ AreaValidated
    /\ maxReasonableArea = 1000
    /\ areaResult.detectedAreaSqm = 10 * 1000
    /\ areaResult.confidence = 50
    /\ areaResult.description[Len(areaResult.description)] = CappedNote

FallbackParsed ==
    op = "detectCropAreaFromSatellite" /\ pc = "parsed" /\ ParseTier(aiResponse) = "fallback"

\* the area mentions of the text, of all three pattern families, in tenths
Mentions == {i \in 1..Len(aiResponse) : aiResponse[i].kind \in {"sqm", "sqmhalf", "area", "ha"}}

PositiveMentions == {i \in Mentions : MatchArea(aiResponse[i]) > 0}

LargestMention ==
    MatchArea(aiResponse[CHOOSE i \in PositiveMentions :
                            \A j \in PositiveMentions : MatchArea(aiResponse[i]) >= MatchArea(aiResponse[j])])

\* C19: on the fallback path the detected area is the maximum over all
\* positive matches of the three pattern families anywhere in the text, not
\* merely the first match; confidence is 0.4 when a positive match exists.
C19_FallbackTakesMaximumMatch ==
    (FallbackParsed /\ PositiveMentions # {}) =>
        /\ areaResult.detectedAreaSqm = 10 * RoundDiv(LargestMention, 10)
        /\ areaResult.confidence = 40

\* the first entry of the crop vocabulary occurring in the text, title-cased
MentionedCrop == TitleCase(FirstMention(aiResponse, AreaCropTypes))

SingleMention == Cardinality(Mentions) = 1 /\ PositiveMentions = Mentions

\* C20 as stated: on the fallback path a text with a single positive area
\* mention yields that number (rounded), confidence 0.4 and the title-cased
\* first vocabulary crop of the text; no area match and no hint yield area 0
\* and confidence 0.3; no area match and a hint yield 0.8 x hint and
\* confidence 0.2.
C20_FallbackResult ==
    FallbackParsed =>
        /\ SingleMention =>
              /\ areaResult.detectedAreaSqm = 10 * RoundDiv(LargestMention, 10)
              /\ areaResult.confidence = 40
              /\ areaResult.cropType = MentionedCrop
        /\ (PositiveMentions = {} /\ ~farmAreaHint.present) =>
              areaResult.detectedAreaSqm = 0 /\ areaResult.confidence = 30
        /\ (PositiveMentions = {} /\ farmAreaHint.present) =>
              areaResult.detectedAreaSqm = 8 * farmAreaHint.v /\ areaResult.confidence = 20

\* C20 amended: as stated, where a hint of 0 counts as no hint and the
\* estimate from a non-zero hint is 0.8 x hint rounded to the nearest whole
\* number.
C20_FallbackResultRounded ==
    FallbackParsed =>
        /\ SingleMention =>
              /\ areaResult.detectedAreaSqm = 10 * RoundDiv(LargestMention, 10)
              /\ areaResult.confidence = 40
              /\ areaResult.cropType = MentionedCrop
        /\ (PositiveMentions = {} /\ (~farmAreaHint.present \/ farmAreaHint.v = 0)) =>
              areaResult.detectedAreaSqm = 0 /\ areaResult.confidence = 30
        /\ (PositiveMentions = {} /\ farmAreaHint.present /\ farmAreaHint.v # 0) =>
              /\ areaResult.detectedAreaSqm = 10 * RoundDiv(8 * farmAreaHint.v, 10)
              /\ areaResult.confidence = 20

C20_Witness ==
    /\ FallbackParsed
    /\ SingleMention
    /\ LargestMention = 15005
    /\ areaResult.detectedAreaSqm = 15010
    /\ areaResult.cropType = "Tomato"

----------------------------------------------------------------------------
(* Properties of the primary parse path                                    *)

\* the first JSON object of a text before which no "{" occurs, 0 when there is none
FirstObject(text) ==
    LET objs == {i \in 1..Len(text) :
                    text[i].kind = "obj" /\ \A k \in 1..(i - 1) : ~HasOpen(text[k])}
    IN  IF objs = {} THEN 0 ELSE CHOOSE i \in objs : TRUE

\* a valid JSON object comes first and later text contains a brace
ObjectThenBraces(text) ==
    /\ FirstObject(text) # 0
    /\ \E j \in (FirstObject(text) + 1)..Len(text) : HasOpen(text[j]) \/ HasClose(text[j])

\* C21: when the text holds a valid JSON object followed by further text that
\* contains braces, both parsers still decode that first object on the
\* structured path: the result is the one the object alone would give.
C21_FirstObjectDecoded ==
    /\ (op = "detectCropAreaFromSatellite" /\ pc = "parsed" /\ ObjectThenBraces(aiResponse)) =>
          /\ ParseTier(aiResponse) = "structured"
          /\ areaResult = parseAreaDetectionResponse(<<aiResponse[FirstObject(aiResponse)]>>, farmAreaHint)
    /\ (Parsed /\ ObjectThenBraces(aiResponse)) =>
          /\ SuggestionTier(aiResponse) = "structured"
          /\ suggestions.v = parseAIResponse(<<aiResponse[FirstObject(aiResponse)]>>, weatherSummary, now)

StructuredParsed == Parsed /\ ExtractJson(aiResponse).structured

\* the object the structured path decoded
Decoded == ExtractJson(aiResponse).val

GenericCaution == "Consider weather conditions carefully when planning your crops."

\* C22 as stated: on the suggestion parser's structured path a missing
\* suggestions array yields an empty suggestions list, a missing riskFactors
\* array yields an empty riskFactors list, and a missing generalAdvice yields
\* the generic caution string.
C22_MissingMembersDefault ==
    StructuredParsed =>
        /\ Decoded.suggestions.kind = "missing" => suggestions.v.suggestions = JList(<<>>)
        /\ Decoded.riskFactors.kind = "missing" => suggestions.v.riskFactors = JList(<<>>)
        /\ Decoded.generalAdvice = "" => suggestions.v.generalAdvice = GenericCaution

\* C22 amended: as stated, except that a missing riskFactors array yields the
\* one-entry list "Monitor weather changes closely".
C22_MissingRiskFactorsDefault ==
    StructuredParsed =>
        /\ Decoded.suggestions.kind = "missing" => suggestions.v.suggestions = JList(<<>>)
        /\ Decoded.riskFactors.kind = "missing" =>
              suggestions.v.riskFactors = JList(<<"Monitor weather changes closely">>)
        /\ Decoded.generalAdvice = "" => suggestions.v.generalAdvice = GenericCaution

C22_Witness ==
    /\ StructuredParsed
    /\ aiResponse = <<SegLBrace, SegRBrace>>
    /\ Decoded.suggestions.kind = "missing"
    /\ Decoded.riskFactors.kind = "missing"
    /\ suggestions.v.suggestions.items = <<>>
    /\ Len(suggestions.v.riskFactors.items) = 1
    /\ suggestions.v.generalAdvice = GenericCaution

----------------------------------------------------------------------------
(* Properties of the weather factor                                        *)

\* the multipliers in twentieths: temperature, humidity, mean forecast precipitation
TemperatureMultiplier(t) ==
    IF t >= 20 /\ t <= 30 THEN 22 ELSE IF t < 10 \/ t > 40 THEN 14 ELSE 18

HumidityMultiplier(h) ==
    IF h >= 50 /\ h <= 70 THEN 21 ELSE IF h < 30 \/ h > 90 THEN 17 ELSE 20

\* the mean is sum / n; the comparisons are made on sum, in tenths of mm
RainfallMultiplier(forecast) ==
    LET n == Len(forecast)
        total == SumPrecip(forecast)
    IN  IF n = 0 THEN 20
        ELSE IF 20 * n <= total /\ total <= 100 * n THEN 22
        ELSE IF total < 5 * n \/ total > 200 * n THEN 16
        ELSE 20

\* the product of the three multipliers of the weather passed in, in 1/8000
MultiplierProduct ==
    TemperatureMultiplier(weatherData.v.current.temperature)
        * HumidityMultiplier(weatherData.v.current.humidity)
        * RainfallMultiplier(weatherData.v.forecast)

\* C23: the weather factor of a prediction is 1.0 when weather data is absent;
\* otherwise it is the product of the temperature, humidity and rainfall
\* multipliers clamped to [0.5, 1.5]; it is always within [0.5, 1.5].
C23_WeatherFactorClamped ==
    PredictDone =>
        LET factor == predictions[1].factors.weather
        IN  /\ ~weatherData.present => factor = WeatherDen
            /\ weatherData.present =>
                  factor = Max(WeatherDen \div 2, Min((3 * WeatherDen) \div 2, MultiplierProduct))
            /\ 2 * factor >= WeatherDen
            /\ 2 * factor <= 3 * WeatherDen

\* all three conditions extreme: the product 0.476 is raised to 0.5
C23_Witness ==
    /\ PredictDone
    /\ weatherData.present
    /\ weatherData.v.current.temperature < 10
    /\ weatherData.v.current.humidity < 30
    /\ weatherData.v.forecast # <<>>
    /\ 2 * SumPrecip(weatherData.v.forecast) < Len(weatherData.v.forecast)
    /\ 2 * MultiplierProduct < WeatherDen
    /\ 2 * predictions[1].factors.weather = WeatherDen

----------------------------------------------------------------------------
(* Properties of one derivation cycle                                      *)

\* the ids generateWeatherAlerts gives its six kinds of alert
WeatherAlertIds == {"temp-high", "temp-low", "humidity-high", "wind-high", "rain-heavy", "rain-low"}

\* the alerts of the derived list that generateWeatherAlerts produced
WeatherAlerts == SelectSeq(allAlerts, LAMBDA alert : alert.id \in WeatherAlertIds)

\* C29: one derivation cycle produces at most 4 weather alerts, at most one
\* of them urgent; High Temperature and Frost Warning never fire together,
\* nor do Heavy Rainfall and Dry Period.
C29_AtMostFourWeatherAlerts ==
    WeatherDerived =>
        /\ Len(WeatherAlerts) <= 4
        /\ Len(SelectSeq(WeatherAlerts, LAMBDA alert : alert.severity = "urgent")) <= 1
        /\ ~(AlertsWithId("temp-high") # <<>> /\ AlertsWithId("temp-low") # <<>>)
        /\ ~(AlertsWithId("rain-heavy") # <<>> /\ AlertsWithId("rain-low") # <<>>)

\* frost, humidity, wind and heavy rain at once: four alerts, one urgent
C29_Witness ==
    /\ WeatherDerived
    /\ Len(WeatherAlerts) = 4
    /\ AlertsWithId("temp-low") # <<>> /\ AlertsWithId("rain-heavy") # <<>>
    /\ Len(SelectSeq(WeatherAlerts, LAMBDA alert : alert.severity = "urgent")) = 1

----------------------------------------------------------------------------
(* Properties of MetricsScreen.loadMetrics                                 *)

Combined == op = "loadMetrics" /\ pc \in {"update", "done"} /\ cropMetrics # <<>>

\* what the claim pairs a crop with: the prediction computed from that crop,
\* the zero placeholder when its prediction failed
OwnPrediction(crop) ==
    IF PredictYieldThrows(crop) THEN ZeroPrediction
    ELSE Shown(PredictYieldValue(crop, weatherData))

\* C24: every active crop is paired, for display and for the persisted
\* update, with the prediction computed from that same crop, and a crop whose
\* prediction failed with the zero placeholder, for every subset of failing
\* predictions.
C24_CropPairedWithOwnPrediction ==
    Combined =>
        /\ Len(cropMetrics) = Len(crops)
        /\ \A i \in 1..Len(cropMetrics) :
              /\ cropMetrics[i].crop = crops[i]
              /\ cropMetrics[i].prediction = OwnPrediction(crops[i])
        /\ \A i \in 1..Len(updates) :
              /\ updates[i].crop = crops[i]
              /\ updates[i].predicted_yield_kg = OwnPrediction(crops[i]).predictedYieldKg
              /\ updates[i].predicted_revenue = OwnPrediction(crops[i]).predictedRevenue
              /\ updates[i].confidence_score = OwnPrediction(crops[i]).confidenceScore

\* a run whose repository reads succeeded and returned crops: it reached the update loop and ended
RanThrough == op = "loadMetrics" /\ pc = "done" /\ failingCall = "none" /\ crops # <<>>

\* C30: in a run of loadMetrics that gets as far as the update loop,
\* updateCropYieldPrediction is attempted once for every active crop in
\* order; a failed update neither prevents the attempts for later crops nor
\* sets the error state; every run (no crops, success, or failure) ends with
\* isLoading false.
C30_EveryCropUpdatedRunEndsNotLoading ==
    op = "loadMetrics" =>
        /\ \A i \in 1..Len(updates) : updates[i].crop = crops[i]
        /\ pc = "update" => error = ""
        /\ RanThrough => Len(updates) = Len(crops) /\ error = ""
        /\ pc = "done" => ~isLoading

\* three crops, the first update fails, the other two are still attempted
C30_Witness ==
    /\ RanThrough
    /\ Len(crops) = 3 /\ Len(updates) = 3
    /\ updates[1].failed /\ ~updates[2].failed /\ updates[3].failed
    /\ error = "" /\ ~isLoading

----------------------------------------------------------------------------
(* Properties of the hooks                                                 *)

InFlight == {k \in 1..Len(loads) : loads[k].state \in {"pending", "suggesting"}}

AllSettled == loads # <<>> /\ InFlight = {}

\* C25: in useWeatherData, once all overlapping loads have settled, in
\* whatever order, the weatherData held is the result of the most recently
\* issued load, never that of an older load that finished last.
C25_LatestLoadWins ==
    (op = "useWeatherData" /\ AllSettled /\ loads[Len(loads)].state = "fulfilled") =>
        weatherData = loads[Len(loads)].weather

\* C26: in useWeatherData and useCropSuggestions isLoading is true in every
\* state in which at least one load is in flight, and false once every issued
\* load has settled.
C26_LoadingWhileInFlight ==
    (op \in {"useWeatherData", "useCropSuggestions"}) =>
        /\ InFlight # {} => isLoading
        /\ AllSettled => ~isLoading

\* C27: in useWeatherData a load that fails sets error and leaves the
\* weatherData held unchanged, and starting a load clears error.
C27_FailureKeepsWeatherData ==
    [][(op = "useWeatherData") =>
        /\ (\E k \in 1..Len(loads) : loads[k].state = "pending" /\ loads'[k].state = "rejected") =>
              error' # "" /\ weatherData' = weatherData
        /\ Len(loads') > Len(loads) => error' = ""]_vars

\* a load succeeded, then a refresh failed: an error next to stale weather
C27_Witness ==
    /\ op = "useWeatherData"
    /\ Len(loads) = 2
    /\ loads[1].state = "fulfilled" /\ loads[2].state = "rejected"
    /\ error # ""
    /\ weatherData.present /\ weatherData = loads[1].weather

\* the alerts of a list that getTopAlerts lets through
UrgentOrWarning(alerts) ==
    SelectSeq(alerts, LAMBDA alert : alert.severity \in {"urgent", "warning"})

\* C28: in every state of useWeatherAlerts, allAlerts is empty while
\* isLoading; otherwise it is the two fallback alerts whenever error is
\* non-null or weatherData is null, stale weatherData or not; otherwise it is
\* the weather-derived alert list; topAlerts is the first at most 2
\* urgent/warning alerts of allAlerts, hence empty while loading and in the
\* fallback case.
C28_AlertsFollowHookState ==
    (op = "useWeatherData") =>
        /\ isLoading => allAlerts = <<>>
        /\ (~isLoading /\ (error # "" \/ ~weatherData.present)) =>
              /\ IsFallbackPair(allAlerts)
              /\ allAlerts = generateFallbackAlerts
        /\ (~isLoading /\ error = "" /\ weatherData.present) =>
              allAlerts = SortAlerts(generateWeatherAlerts(weatherData.v))
        /\ topAlerts = SubSeq(UrgentOrWarning(allAlerts), 1, Min(2, Len(UrgentOrWarning(allAlerts))))
        /\ (isLoading \/ error # "" \/ ~weatherData.present) => topAlerts = <<>>

\* stale frost weather is held next to an error: the fallback pair is shown
C28_Witness ==
    /\ op = "useWeatherData"
    /\ ~isLoading /\ error # "" /\ weatherData.present
    /\ Len(generateWeatherAlerts(weatherData.v)) = 4
    /\ allAlerts = generateFallbackAlerts
    /\ topAlerts = <<>>

====
